---- MODULE Spec2Model ----
(***************************************************************************)
(* Model of the banana detection pipeline of SagiTech                      *)
(* (backend/ml/banana_detection/inference.py) and of the request handler   *)
(* step that reconfigures the shared detector (backend/api/views.py).      *)
(*                                                                         *)
(* Number representation (floats of the source are fixed-point integers):  *)
(*   confidence, thresholds on confidence : hundredths (75 is 0.75)        *)
(*   coordinates                          : pixels, even integers, so that *)
(*                                          the shoelace sum is even and   *)
(*                                          abs(sum) / 2.0 is an integer   *)
(*   area, min_polygon_area               : square pixels                  *)
(*   quality_score                        : 1/30000 (30000 is 1.0)         *)
(*   np.mean                              : sum \div length in these units *)
(*   processing_time                      : clock ticks                    *)
(***************************************************************************)
EXTENDS Integers, Sequences, FiniteSets, TLC

(***************************************************************************)
(* Bounds of the model.                                                    *)
(***************************************************************************)
MaxBoxes == 2      \* raw boxes the model runtime returns, over all calls
MaxRawPath == 1    \* raw boxes returned to one call made through an image path
MaxCalls == 2      \* calls on the detector
MaxBatchImages == 3 \* images uploaded over all batch requests
MaxRawSeq == 3     \* raw boxes of one results object handed to _process_predictions
MaxDetections == 4 \* accepted detections of one aggregated result
MaxRecords == 2    \* ScanRecord rows created by PredictionView.post
MaxScoreVertices == 9 \* vertices of a mask contour handed to calculate_quality_score
MaxVertices == 4    \* vertices of a polygon handed to _calculate_polygon_area
MaxLogged == 2      \* raw boxes the runtime returns to one call of a thread
MaxAdmitted == 12   \* requests let through by the rate limiter and not yet expired
MaxSaved == 2       \* detections of one analysis result handed to _save_analysis_results

(***************************************************************************)
(* Program constants.                                                      *)
(***************************************************************************)
RIPENESS_CLASSES == [i \in 0..3 |->
    CASE i = 0 -> "Not Mature" [] i = 1 -> "Mature"
      [] i = 2 -> "Ripe" [] OTHER -> "Over Ripe"]

RipenessNames == {RIPENESS_CLASSES[i] : i \in DOMAIN RIPENESS_CLASSES}

DefaultConfidence == 75
DefaultMinConfidence == 75
DefaultMinPolygonArea == 100
DefaultMaxAspectRatio == 5
DefaultIou == 50
AreaReference == 10000
VertexReference == 8
PredictLimit == 10
ApiLimit == 100

\* BananaDetector._get_default_config
DefaultConfig ==
    [confidence_threshold |-> DefaultConfidence,
     iou_threshold |-> DefaultIou,
     quality_thresholds |-> [min_confidence |-> DefaultMinConfidence,
                             min_polygon_area |-> DefaultMinPolygonArea,
                             max_aspect_ratio |-> DefaultMaxAspectRatio]]

\* get_detector() builds the shared instance as BananaDetector(): config is
\* None, so __init__ takes the default configuration
ConstructionConfigs == {DefaultConfig}

\* confidence_threshold values a request can carry
\* (MLAnalysisRequestSerializer: FloatField 0.1 .. 1.0)
RequestThresholds == {50, 90}

(***************************************************************************)
(* Generic helpers.                                                        *)
(***************************************************************************)
Abs(x) == IF x < 0 THEN -x ELSE x

Min(a, b) == IF a < b THEN a ELSE b

RECURSIVE SumSeq(_)
SumSeq(s) == IF s = <<>> THEN 0 ELSE Head(s) + SumSeq(Tail(s))

\* np.mean over a non-empty list, in the list's fixed-point unit
Mean(s) == SumSeq(s) \div Len(s)

EmptyDict == [k \in {} |-> 0]

\* d.get(k, default)
Get(d, k, default) == IF k \in DOMAIN d THEN d[k] ELSE default

\* d[k] = d.get(k, 0) + 1
DictIncrement(d, k) ==
    [x \in (DOMAIN d) \cup {k} |->
        IF x = k THEN (IF k \in DOMAIN d THEN d[k] ELSE 0) + 1 ELSE d[x]]

RECURSIVE DictSum(_)
DictSum(d) ==
    IF DOMAIN d = {} THEN 0
    ELSE LET k == CHOOSE x \in DOMAIN d : TRUE
         IN d[k] + DictSum([x \in (DOMAIN d) \ {k} |-> d[x]])

RECURSIVE SeqsUpTo(_, _)
SeqsUpTo(S, n) ==
    IF n = 0 THEN {<<>>}
    ELSE LET shorter == SeqsUpTo(S, n - 1)
         IN shorter \cup {Append(s, e) : s \in {t \in shorter : Len(t) = n - 1}, e \in S}

(***************************************************************************)
(* Raw output of the model runtime (ultralytics Results): one record per   *)
(* box with cls, conf, xyxy and the mask contour masks.xy[i] (empty when   *)
(* the runtime produced no mask).  malformed marks a record whose          *)
(* extraction raises inside the per-record try block.                      *)
(***************************************************************************)
Raw(cls, conf, xyxy, mask, malformed) ==
    [cls |-> cls, conf |-> conf, xyxy |-> xyxy, mask |-> mask,
     malformed |-> malformed]

Triangle == << <<0, 0>>, <<200, 0>>, <<0, 200>> >>
Segment == << <<0, 0>>, <<200, 0>> >>

RawKinds ==
    { Raw(2, 90, <<0, 0, 100, 200>>, <<>>, FALSE),       \* plain box, accepted
      Raw(1, 100, <<20, 20, 220, 120>>, Triangle, FALSE), \* masked box, conf 1.0
      Raw(0, 70, <<0, 0, 100, 200>>, <<>>, FALSE),       \* conf 0.70
      Raw(5, 90, <<0, 0, 100, 200>>, <<>>, FALSE),       \* class id outside 0..3
      Raw(3, 80, <<0, 0, 640, 100>>, Segment, FALSE),    \* 2-point contour, flat box
      Raw(2, 90, <<0, 0, 100, 200>>, <<>>, TRUE) }       \* extraction raises

(***************************************************************************)
(* Pure functions of the pipeline.                                         *)
(***************************************************************************)
\* BananaDetector._calculate_polygon_area: shoelace formula
RECURSIVE ShoelaceSum(_, _)
ShoelaceSum(polygon, i) ==
    IF i > Len(polygon) THEN 0
    ELSE LET j == (i % Len(polygon)) + 1
         IN polygon[i][1] * polygon[j][2] - polygon[j][1] * polygon[i][2]
            + ShoelaceSum(polygon, i + 1)

\* _calculate_polygon_area returning half the shoelace sum as it comes,
\* without abs()
_calculate_polygon_area_Signed(polygon) ==
    IF Len(polygon) < 3 THEN 0
    ELSE ShoelaceSum(polygon, 1) \div 2

_calculate_polygon_area(polygon) ==
    IF Len(polygon) < 3 THEN 0
    ELSE Abs(ShoelaceSum(polygon, 1)) \div 2

\* calculate_quality_score with the area sub-score left uncapped
calculate_quality_score_AreaUncapped(detection) ==
    LET confidence_score == Min(detection.confidence * (AreaReference \div 100), AreaReference)
        area_score == detection.area
        polygon_score == Min(Len(detection.polygon) * (AreaReference \div VertexReference),
                             AreaReference)
    IN confidence_score + area_score + polygon_score

\* QualityValidator.calculate_quality_score: mean of three sub-scores, each
\* capped at 1.0 with min(); the value is the sum of the sub-scores in
\* 1/10000, which is their mean in 1/30000.
calculate_quality_score(detection) ==
    LET confidence_score == Min(detection.confidence * (AreaReference \div 100), AreaReference)
        area_score == Min(detection.area, AreaReference)
        polygon_score == Min(Len(detection.polygon) * (AreaReference \div VertexReference),
                             AreaReference)
    IN confidence_score + area_score + polygon_score

\* aspect_ratio = width / height if height > 0 else 0;  aspect_ratio > max
AspectRatioExceeds(bbox, max_aspect_ratio) ==
    LET width == bbox[3] - bbox[1]
        height == bbox[4] - bbox[2]
    IN IF height > 0 THEN width > max_aspect_ratio * height
       ELSE 0 > max_aspect_ratio

\* validate_detection_quality without its confidence check
ValidationIssues_NoConfidence(quality_thresholds, detection) ==
    (IF Len(detection.polygon) < 3
        THEN <<"Invalid polygon: Less than 3 vertices">> ELSE <<>>)
    \o (IF detection.area < Get(quality_thresholds, "min_polygon_area", DefaultMinPolygonArea)
        THEN <<"Small detection area">> ELSE <<>>)
    \o (IF AspectRatioExceeds(detection.bbox,
            Get(quality_thresholds, "max_aspect_ratio", DefaultMaxAspectRatio))
        THEN <<"Extreme aspect ratio">> ELSE <<>>)

\* validate_detection_quality comparing the confidence with <= instead of <
ValidationIssues_Inclusive(quality_thresholds, detection) ==
    (IF detection.confidence <= Get(quality_thresholds, "min_confidence", DefaultMinConfidence)
        THEN <<"Low confidence">> ELSE <<>>)
    \o (IF Len(detection.polygon) < 3
        THEN <<"Invalid polygon: Less than 3 vertices">> ELSE <<>>)
    \o (IF detection.area < Get(quality_thresholds, "min_polygon_area", DefaultMinPolygonArea)
        THEN <<"Small detection area">> ELSE <<>>)
    \o (IF AspectRatioExceeds(detection.bbox,
            Get(quality_thresholds, "max_aspect_ratio", DefaultMaxAspectRatio))
        THEN <<"Extreme aspect ratio">> ELSE <<>>)

\* QualityValidator.validate_detection_quality: the list of issues, in the
\* order the checks run; the detection is valid when the list is empty.
ValidationIssues(quality_thresholds, detection) ==
    (IF detection.confidence < Get(quality_thresholds, "min_confidence", DefaultMinConfidence)
        THEN <<"Low confidence">> ELSE <<>>)
    \o (IF Len(detection.polygon) < 3
        THEN <<"Invalid polygon: Less than 3 vertices">> ELSE <<>>)
    \o (IF detection.area < Get(quality_thresholds, "min_polygon_area", DefaultMinPolygonArea)
        THEN <<"Small detection area">> ELSE <<>>)
    \o (IF AspectRatioExceeds(detection.bbox,
            Get(quality_thresholds, "max_aspect_ratio", DefaultMaxAspectRatio))
        THEN <<"Extreme aspect ratio">> ELSE <<>>)

validate_detection_quality(quality_thresholds, detection) ==
    LET issues == ValidationIssues(quality_thresholds, detection)
    IN [is_valid |-> Len(issues) = 0, issues |-> issues]

\* RIPENESS_CLASSES.get(class_id, f"Unknown_{class_id}")
ClassName(class_id) ==
    IF class_id \in DOMAIN RIPENESS_CLASSES THEN RIPENESS_CLASSES[class_id]
    ELSE "Unknown_" \o ToString(class_id)

\* Body of the per-record try block of _process_predictions
ExtractDetection(raw) ==
    LET bbox == raw.xyxy
        polygon == IF Len(raw.mask) > 0 THEN raw.mask
                   ELSE << <<bbox[1], bbox[2]>>, <<bbox[3], bbox[2]>>,
                           <<bbox[3], bbox[4]>>, <<bbox[1], bbox[4]>> >>
        detection == [class_id |-> raw.cls,
                      class_name |-> ClassName(raw.cls),
                      confidence |-> raw.conf,
                      polygon |-> polygon,
                      bbox |-> bbox,
                      area |-> _calculate_polygon_area(polygon),
                      quality_score |-> 0]
    IN [detection EXCEPT !.quality_score = calculate_quality_score(detection)]

\* The loop of _process_predictions leaving at the first record whose
\* extraction raises (break instead of continue)
RECURSIVE ProcessBoxes_StopsAtError(_)
ProcessBoxes_StopsAtError(boxes) ==
    IF boxes = <<>> THEN <<>>
    ELSE IF Head(boxes).malformed THEN <<>>
    ELSE <<ExtractDetection(Head(boxes))>> \o ProcessBoxes_StopsAtError(Tail(boxes))

\* The loop of _process_predictions over result.boxes: a record whose
\* extraction raises is logged and skipped.
RECURSIVE ProcessBoxes(_)
ProcessBoxes(boxes) ==
    IF boxes = <<>> THEN <<>>
    ELSE IF Head(boxes).malformed THEN ProcessBoxes(Tail(boxes))
    ELSE <<ExtractDetection(Head(boxes))>> \o ProcessBoxes(Tail(boxes))

\* BananaDetector._process_predictions.  results.kind: "no_results" (empty
\* results list), "no_boxes" (result.boxes is None or empty), "boxes".
_process_predictions(results) ==
    IF results.kind = "no_results" THEN <<>>
    ELSE IF results.kind = "no_boxes" \/ Len(results.boxes) = 0 THEN <<>>
    ELSE ProcessBoxes(results.boxes)

\* _validate_detections appending every detection, valid or not
_validate_detections_KeepsAll(quality_thresholds, detections) == detections

\* BananaDetector._validate_detections
RECURSIVE _validate_detections(_, _)
_validate_detections(quality_thresholds, detections) ==
    IF detections = <<>> THEN <<>>
    ELSE LET rest == _validate_detections(quality_thresholds, Tail(detections))
         IN IF validate_detection_quality(quality_thresholds, Head(detections)).is_valid
            THEN <<Head(detections)>> \o rest
            ELSE rest

\* ripeness_counts counting only the detections of the 4 known classes
RECURSIVE RipenessCounts_KnownOnly(_)
RipenessCounts_KnownOnly(detections) ==
    IF detections = <<>> THEN EmptyDict
    ELSE LET before == RipenessCounts_KnownOnly(SubSeq(detections, 1, Len(detections) - 1))
             name == detections[Len(detections)].class_name
         IN IF name \in RipenessNames THEN DictIncrement(before, name) ELSE before

\* ripeness_counts of _format_output: starts as {} and gets one key per
\* class_name met
RECURSIVE RipenessCounts(_)
RipenessCounts(detections) ==
    IF detections = <<>> THEN EmptyDict
    ELSE DictIncrement(RipenessCounts(SubSeq(detections, 1, Len(detections) - 1)),
                       detections[Len(detections)].class_name)

Confidences(detections) == [i \in 1..Len(detections) |-> detections[i].confidence]

QualityScores(detections) == [i \in 1..Len(detections) |-> detections[i].quality_score]

\* model_metadata.get('hash', 'unknown')[:8]
ModelVersion(model_metadata) ==
    IF "hash" \in DOMAIN model_metadata THEN model_metadata["hash"] ELSE "unknown"

\* _format_output taking np.mean of the lists without the emptiness guard:
\* np.mean([]) is nan, written -1 here
_format_output_NoEmptyGuard(detections, image, processing_time, model_metadata) ==
    LET quality_metrics ==
            [total_detections |-> Len(detections),
             avg_confidence |-> IF Len(detections) = 0 THEN -1
                                ELSE Mean(Confidences(detections)),
             avg_quality_score |-> IF Len(detections) = 0 THEN -1
                                   ELSE Mean(QualityScores(detections)),
             detection_density |-> (Len(detections) * 1000000) \div (image.shape[1] * image.shape[2])]
        metadata ==
            [image_shape |-> image.shape,
             model_version |-> ModelVersion(model_metadata),
             ripeness_distribution |-> RipenessCounts(detections)]
    IN [success |-> TRUE,
        detections |-> detections,
        processing_time |-> processing_time,
        model_version |-> ModelVersion(model_metadata),
        quality_metrics |-> quality_metrics,
        metadata |-> metadata,
        error_message |-> "None"]

\* BananaDetector._format_output
_format_output(detections, image, processing_time, model_metadata) ==
    LET quality_metrics ==
            [total_detections |-> Len(detections),
             avg_confidence |-> IF detections # <<>> THEN Mean(Confidences(detections)) ELSE 0,
             avg_quality_score |-> IF detections # <<>> THEN Mean(QualityScores(detections)) ELSE 0,
             detection_density |-> (Len(detections) * 1000000) \div (image.shape[1] * image.shape[2])]
        metadata ==
            [image_shape |-> image.shape,
             model_version |-> ModelVersion(model_metadata),
             ripeness_distribution |-> RipenessCounts(detections)]
    IN [success |-> TRUE,
        detections |-> detections,
        processing_time |-> processing_time,
        model_version |-> ModelVersion(model_metadata),
        quality_metrics |-> quality_metrics,
        metadata |-> metadata,
        error_message |-> "None"]

\* AnalysisResult built by the except blocks
FailureResult(processing_time, message) ==
    [success |-> FALSE,
     detections |-> <<>>,
     processing_time |-> processing_time,
     model_version |-> "unknown",
     quality_metrics |-> EmptyDict,
     metadata |-> EmptyDict,
     error_message |-> message]

\* PerformanceMonitor.log_inference
RECURSIVE LogDetections(_, _)
LogDetections(monitor, detections) ==
    IF detections = <<>> THEN monitor
    ELSE LogDetections(
            [monitor EXCEPT
                !.class_distribution = DictIncrement(@, Head(detections).class_name),
                !.quality_scores = Append(@, Head(detections).quality_score)],
            Tail(detections))

\* log_inference keeping a window of the latest processing time only
log_inference_Window(monitor, processing_time, detections) ==
    LogDetections([monitor EXCEPT !.inference_times = <<processing_time>>],
                  detections)

log_inference(monitor, processing_time, detections) ==
    LogDetections([monitor EXCEPT !.inference_times = Append(@, processing_time)],
                  detections)

(***************************************************************************)
(* State of one BananaDetector (the instance get_detector() shares).       *)
(***************************************************************************)
VARIABLES
    config,               \* BananaDetector.config (the dict MLAnalysisView updates)
    quality_validator,    \* QualityValidator: quality_thresholds bound in __init__
    model_manager,        \* SagiTechModelManager: model, is_loaded, model_metadata
    performance_monitor,  \* PerformanceMonitor: inference_times, class_distribution, quality_scores
    constructed,          \* BananaDetector.__init__ has returned
    boxes,                \* raw boxes the runtime has returned so far
    calls,                \* calls made on the detector so far
    last,                 \* the latest call: operation, inputs, outcome, returned value
    scan_records,         \* the ScanRecord table: rows in order of creation, id = position
    requests,             \* request handlers running in threads of the server process
    _start_time,          \* BananaDetector._start_time of the shared instance
    clock,                \* time.time(), in ticks
    cache,                \* django.core.cache: the rate limit counters by key
    admitted              \* requests the rate limiter let through since the counter of the key started

vars == <<config, quality_validator, model_manager, performance_monitor,
          constructed, boxes, calls, last, scan_records, requests,
          _start_time, clock, cache, admitted>>

ModelHash == "3f9a1c07"

\* What the file system and the runtime do during one load_model run
LoadOutcomes == {"missing", "hash_error", "yolo_error", "invalid_model", "ok"}

\* SagiTechModelManager.load_model, with _validate_model: the new manager
\* state and the returned flag
load_model(manager, outcome) ==
    IF outcome = "missing" THEN [manager |-> manager, ret |-> FALSE]
    ELSE IF outcome \in {"hash_error", "yolo_error"} THEN [manager |-> manager, ret |-> FALSE]
    ELSE IF outcome = "invalid_model"
        THEN [manager |-> [manager EXCEPT !.model = "invalid"], ret |-> FALSE]
    ELSE [manager |-> [model |-> "valid",
                       is_loaded |-> TRUE,
                       model_metadata |-> [hash |-> ModelHash]],
          ret |-> TRUE]

(***************************************************************************)
(* Inputs of a classification call.                                        *)
(***************************************************************************)
ImageShapes == {<<640, 640>>}

\* What a caller can pass as image: None, a 2-D array, an array with 4
\* channels, a 3-channel array cv2.cvtColor refuses, a usable image
Images ==
    {[kind |-> k, shape |-> <<0, 0>>] : k \in {"none", "shape2d", "channels4", "cv_error"}}
    \cup {[kind |-> "valid", shape |-> sh] : sh \in ImageShapes}

\* What MLAnalysisView._process_uploaded_image hands over: always a
\* 3-channel RGB array
UploadedImages == {image \in Images : image.kind \in {"valid", "cv_error"}}

\* What model.predict does: raises, or returns results.  The runtime applies
\* conf itself: it returns no box whose confidence is below the conf argument.
Raising == [raises |-> TRUE, results |-> [kind |-> "no_results", boxes |-> <<>>]]

NotCalled == [raises |-> FALSE, results |-> [kind |-> "not_called", boxes |-> <<>>]]

RuntimeOutcomes(conf, n) ==
    {Raising}
    \cup {[raises |-> FALSE, results |-> [kind |-> k, boxes |-> <<>>]] :
            k \in {"no_results", "no_boxes"}}
    \cup {[raises |-> FALSE, results |-> [kind |-> "boxes", boxes |-> b]] :
            b \in SeqsUpTo({r \in RawKinds : r.conf >= conf}, n)}

\* The runtime behaviours one call can meet: model.predict is reached only
\* with a usable image on a loaded manager, and a model object that failed
\* _validate_model has no usable predict.
RuntimeChoices(manager, reached, conf, n) ==
    IF ~reached \/ ~manager.is_loaded THEN {NotCalled}
    ELSE IF manager.model # "valid" THEN {Raising}
    ELSE RuntimeOutcomes(conf, n)

Durations == {2}

Ok(value) == [exc |-> "None", value |-> value]

Raise(message) == [exc |-> message, value |-> <<>>]

\* BananaDetector._validate_input_image
_validate_input_image(image) ==
    IF image.kind = "none" THEN Raise("Input image is None")
    ELSE IF image.kind = "shape2d" THEN Raise("Expected 3D image array")
    ELSE IF image.kind = "channels4" THEN Raise("Expected RGB image with 3 channels")
    ELSE IF image.kind = "cv_error" THEN Raise("cv2.error")
    ELSE Ok(image)

\* BananaDetector._run_inference
_run_inference(manager, runtime) ==
    IF ~manager.is_loaded THEN Raise("Model not loaded")
    ELSE IF manager.model # "valid" \/ runtime.raises THEN Raise("Inference failed")
    ELSE Ok(runtime.results)

\* classify_bananas, "Log metrics": the returned result and the monitor
\* after log_inference
LogMetrics(monitor, result, logged_detections) ==
    Ok([result |-> result,
        monitor |-> log_inference(monitor, result.processing_time, logged_detections)])

\* "Format output" and "Log metrics" handing the unvalidated detections to
\* log_inference
FormatAndLog_LogsCandidates(manager, monitor, image, detections, validated_detections, dt) ==
    LogMetrics(monitor,
               _format_output(validated_detections, image, dt, manager.model_metadata),
               detections)

\* classify_bananas, "Format output" and "Log metrics": both take
\* validated_detections
FormatAndLog(manager, monitor, image, detections, validated_detections, dt) ==
    LogMetrics(monitor,
               _format_output(validated_detections, image, dt, manager.model_metadata),
               validated_detections)

\* classify_bananas, "Quality validation" onwards
ValidateFormatLog(manager, thresholds, monitor, image, detections, dt) ==
    FormatAndLog(manager, monitor, image, detections,
                 _validate_detections(thresholds, detections), dt)

\* classify_bananas, the steps of the try block: an exception of one step
\* leaves the block, skipping the steps after it
ClassifySteps(manager, thresholds, monitor, validated_image, raw_predictions, dt) ==
    IF validated_image.exc # "None" THEN Raise(validated_image.exc)
    ELSE IF raw_predictions.exc # "None" THEN Raise(raw_predictions.exc)
    ELSE ValidateFormatLog(manager, thresholds, monitor, validated_image.value,
                           _process_predictions(raw_predictions.value), dt)

\* The try block of classify_bananas: the result and the monitor after
\* log_inference, or the exception that left the block
ClassifyBody(manager, thresholds, monitor, image, runtime, dt) ==
    ClassifySteps(manager, thresholds, monitor,
                  _validate_input_image(image), _run_inference(manager, runtime), dt)

\* classify_bananas without its except block
HandleClassify_NoHandler(body, monitor, dt) ==
    IF body.exc # "None"
    THEN [raised |-> TRUE, result |-> FailureResult(dt, body.exc), monitor |-> monitor]
    ELSE [raised |-> FALSE, result |-> body.value.result, monitor |-> body.value.monitor]

\* classify_bananas logging the call in the monitor on the failure path too
HandleClassify_LogsFailures(body, monitor, dt) ==
    IF body.exc # "None"
    THEN [raised |-> FALSE, result |-> FailureResult(dt, body.exc),
          monitor |-> log_inference(monitor, dt, <<>>)]
    ELSE [raised |-> FALSE, result |-> body.value.result, monitor |-> body.value.monitor]

\* classify_bananas, try / except Exception around the body: raised says
\* whether an exception left the method
HandleClassify(body, monitor, dt) ==
    IF body.exc # "None"
    THEN [raised |-> FALSE, result |-> FailureResult(dt, body.exc), monitor |-> monitor]
    ELSE [raised |-> FALSE, result |-> body.value.result, monitor |-> body.value.monitor]

\* BananaDetector.classify_bananas
classify_bananas(manager, thresholds, monitor, image, runtime, dt) ==
    HandleClassify(ClassifyBody(manager, thresholds, monitor, image, runtime, dt),
                   monitor, dt)

\* What a caller can pass as image_path: None, a data URL that decodes, a
\* data URL that does not, a path cv2.imread cannot read, a readable file
ImagePaths == {"none", "b64_ok", "b64_malformed", "file_unreadable", "file_ok"}

\* The image loading of classify_bananas_from_path (_load_base64_image or
\* cv2.imread)
LoadImage(image_path, shape) ==
    IF image_path = "none" THEN Raise("'NoneType' object has no attribute 'startswith'")
    ELSE IF image_path = "b64_malformed" THEN Raise("Incorrect padding")
    ELSE IF image_path = "file_unreadable" THEN Raise("Could not load image")
    ELSE Ok([kind |-> "valid", shape |-> shape])

\* classify_bananas_from_path, the except block around the inner call
HandleFromPath(inner) ==
    IF inner.raised
    THEN [raised |-> FALSE, result |-> FailureResult(0, inner.result.error_message),
          monitor |-> inner.monitor]
    ELSE inner

\* classify_bananas_from_path once the image is loaded, or not
ClassifyLoaded(manager, thresholds, monitor, image, runtime, dt) ==
    IF image.exc # "None"
    THEN [raised |-> FALSE, result |-> FailureResult(0, image.exc), monitor |-> monitor]
    ELSE HandleFromPath(classify_bananas(manager, thresholds, monitor,
                                         image.value, runtime, dt))

\* BananaDetector.classify_bananas_from_path
classify_bananas_from_path(manager, thresholds, monitor, image_path, shape, runtime, dt) ==
    ClassifyLoaded(manager, thresholds, monitor, LoadImage(image_path, shape), runtime, dt)

\* BananaDetector._convert_to_legacy_format
_convert_to_legacy_format(result) ==
    [i \in 1..Len(result.detections) |->
        [bbox |-> result.detections[i].bbox,
         ripeness |-> result.detections[i].class_name,
         confidence |-> result.detections[i].confidence,
         polygon |-> result.detections[i].polygon,
         area |-> result.detections[i].area,
         quality_score |-> result.detections[i].quality_score]]

\* predict, what it makes of the AnalysisResult (_legacy_error_format
\* returns [])
LegacyFormat(inner) ==
    [raised |-> FALSE, result |-> inner.result, monitor |-> inner.monitor,
     legacy |-> IF inner.raised \/ ~inner.result.success THEN <<>>
                ELSE _convert_to_legacy_format(inner.result)]

\* BananaDetector.predict
predict(manager, thresholds, monitor, image_path, shape, runtime, dt) ==
    LegacyFormat(classify_bananas_from_path(manager, thresholds, monitor,
                                            image_path, shape, runtime, dt))

(***************************************************************************)
(* Initial state: the components built by BananaDetector.__init__, before  *)
(* its call of initialize().                                               *)
(***************************************************************************)
\* The authenticated users (request.user)
Users == {"farmer1", "farmer2"}

\* Request handlers: none has started
Requests == {1, 2}

NoRequests == [r \in Requests |-> [pc |-> "idle"]]

NoCall ==
    [op |-> "none", input |-> "none", runtime |-> "none", raised |-> FALSE,
     result |-> FailureResult(0, "None"), legacy |-> <<>>,
     was_loaded |-> FALSE, thresholds |-> EmptyDict, conf_arg |-> 0,
     monitor_before |-> [inference_times |-> <<>>, class_distribution |-> EmptyDict,
                         quality_scores |-> <<>>]]

Init ==
    /\ config \in ConstructionConfigs
    /\ quality_validator = [quality_thresholds |-> config.quality_thresholds]
    /\ model_manager = [model |-> "None", is_loaded |-> FALSE, model_metadata |-> EmptyDict]
    /\ performance_monitor = [inference_times |-> <<>>, class_distribution |-> EmptyDict,
                              quality_scores |-> <<>>]
    /\ constructed = FALSE
    /\ boxes = 0
    /\ calls = 0
    /\ last = NoCall
    /\ scan_records = <<>>
    /\ requests = NoRequests
    /\ _start_time = "None"
    /\ clock = 0
    /\ cache = EmptyDict
    /\ admitted = EmptyDict

(***************************************************************************)
(* Operations.                                                             *)
(***************************************************************************)
\* BananaDetector.initialize: runs load_model; the first run is the one of
\* __init__, which completes the construction
Initialize ==
    /\ \E outcome \in LoadOutcomes :
          model_manager' = load_model(model_manager, outcome).manager
    /\ constructed' = TRUE
    /\ UNCHANGED <<config, quality_validator, performance_monitor, boxes, calls, last>>
    /\ UNCHANGED <<scan_records, requests>>
    /\ UNCHANGED <<_start_time, clock, cache, admitted>>

Record(op, input, runtime, conf, out) ==
    [op |-> op, input |-> input, runtime |-> runtime, raised |-> out.raised,
     result |-> out.result,
     legacy |-> IF "legacy" \in DOMAIN out THEN out.legacy ELSE <<>>,
     was_loaded |-> model_manager.is_loaded,
     thresholds |-> quality_validator.quality_thresholds,
     conf_arg |-> conf,
     monitor_before |-> performance_monitor]

\* The effect of one call on the detector: log_inference has updated the
\* monitor, the caller holds the returned value
Returns(op, input, runtime, conf, out) ==
    /\ performance_monitor' = out.monitor
    /\ boxes' = boxes + Len(runtime.results.boxes)
    /\ calls' = calls + 1
    /\ last' = Record(op, input, runtime, conf, out)

\* A caller invokes detector.classify_bananas(image) (BulkAnalysisView.post
\* does so for each uploaded image)
Classify ==
    /\ constructed
    /\ calls < MaxCalls
    /\ \E image \in Images, dt \in Durations :
       \E runtime \in RuntimeChoices(model_manager, image.kind = "valid",
                                     config.confidence_threshold, MaxBoxes - boxes) :
          Returns("classify_bananas", image, runtime, config.confidence_threshold,
                  classify_bananas(model_manager, quality_validator.quality_thresholds,
                                   performance_monitor, image, runtime, dt))
    /\ UNCHANGED <<config, quality_validator, model_manager, constructed>>
    /\ UNCHANGED <<scan_records, requests>>
    /\ UNCHANGED <<_start_time, clock, cache, admitted>>

\* A caller invokes detector.classify_bananas_from_path(image_path)
ClassifyFromPath ==
    /\ constructed
    /\ calls < MaxCalls
    /\ \E image_path \in ImagePaths, shape \in ImageShapes, dt \in Durations :
       \E runtime \in RuntimeChoices(model_manager,
                                     image_path \in {"b64_ok", "file_ok"},
                                     config.confidence_threshold,
                                     Min(MaxRawPath, MaxBoxes - boxes)) :
          Returns("classify_bananas_from_path", image_path, runtime,
                  config.confidence_threshold,
                  classify_bananas_from_path(model_manager,
                        quality_validator.quality_thresholds, performance_monitor,
                        image_path, shape, runtime, dt))
    /\ UNCHANGED <<config, quality_validator, model_manager, constructed>>
    /\ UNCHANGED <<scan_records, requests>>
    /\ UNCHANGED <<_start_time, clock, cache, admitted>>

\* A caller invokes detector.predict(image_path) (detect_bananas does)
Predict ==
    /\ constructed
    /\ calls < MaxCalls
    /\ \E image_path \in ImagePaths, shape \in ImageShapes, dt \in Durations :
       \E runtime \in RuntimeChoices(model_manager,
                                     image_path \in {"b64_ok", "file_ok"},
                                     config.confidence_threshold,
                                     Min(MaxRawPath, MaxBoxes - boxes)) :
          Returns("predict", image_path, runtime, config.confidence_threshold,
                  predict(model_manager, quality_validator.quality_thresholds,
                          performance_monitor, image_path, shape, runtime, dt))
    /\ UNCHANGED <<config, quality_validator, model_manager, constructed>>
    /\ UNCHANGED <<scan_records, requests>>
    /\ UNCHANGED <<_start_time, clock, cache, admitted>>

\* detector.config.update(config) of MLAnalysisView.post: the three keys of
\* the request's dict replace those of detector.config.  The validator keeps
\* the quality_thresholds dict it took in __init__.
ConfigUpdate(old, confidence_threshold, iou_threshold) ==
    [old EXCEPT !.confidence_threshold = confidence_threshold,
                !.iou_threshold = iou_threshold,
                !.quality_thresholds = [min_confidence |-> confidence_threshold,
                                        min_polygon_area |-> 100,
                                        max_aspect_ratio |-> 5]]

\* MLAnalysisView.post, the part that acts on the detector: reconfigure it
\* from the request, then classify the uploaded image
MLAnalysisPost ==
    /\ constructed
    /\ calls < MaxCalls
    /\ \E confidence_threshold \in RequestThresholds, image \in UploadedImages,
          dt \in Durations :
       \E runtime \in RuntimeChoices(model_manager, image.kind = "valid",
                                     confidence_threshold, MaxBoxes - boxes) :
          /\ config' = ConfigUpdate(config, confidence_threshold, DefaultIou)
          /\ Returns("ml_analysis_post", image, runtime, confidence_threshold,
                     classify_bananas(model_manager, quality_validator.quality_thresholds,
                                      performance_monitor, image, runtime, dt))
    /\ UNCHANGED <<quality_validator, model_manager, constructed>>
    /\ UNCHANGED <<scan_records, requests>>
    /\ UNCHANGED <<_start_time, clock, cache, admitted>>

Next ==
    \/ Initialize
    \/ Classify
    \/ ClassifyFromPath
    \/ Predict
    \/ MLAnalysisPost

Spec == Init /\ [][Next]_vars

(***************************************************************************)
(* validate_detection_quality as a function of its inputs: a validator     *)
(* built on some quality_thresholds dict is applied to one detection.      *)
(***************************************************************************)
\* quality_thresholds dicts a config can carry: the default one, a stricter
\* one, and none at all (config.get('quality_thresholds', {}))
ThresholdChoices ==
    {DefaultConfig.quality_thresholds,
     [min_confidence |-> 60, min_polygon_area |-> 200, max_aspect_ratio |-> 3],
     EmptyDict}

ValidateBoxes ==
    {<<0, 0, 100, 200>>, <<0, 0, 10, 8>>, <<0, 0, 20, 8>>, <<0, 0, 400, 100>>,
     <<0, 0, 500, 100>>, <<0, 0, 640, 100>>, <<0, 100, 200, 100>>}

ValidateInputs ==
    {ExtractDetection(Raw(1, conf, xyxy, mask, FALSE)) :
        conf \in {59, 60, 74, 75, 100}, xyxy \in ValidateBoxes,
        mask \in {<<>>, Segment, Triangle}}

InitValidate ==
    /\ config = DefaultConfig
    /\ quality_validator \in {[quality_thresholds |-> t] : t \in ThresholdChoices}
    /\ model_manager = [model |-> "None", is_loaded |-> FALSE, model_metadata |-> EmptyDict]
    /\ performance_monitor = [inference_times |-> <<>>, class_distribution |-> EmptyDict,
                              quality_scores |-> <<>>]
    /\ constructed = FALSE
    /\ boxes = 0
    /\ calls = 0
    /\ last = NoCall
    /\ scan_records = <<>>
    /\ requests = NoRequests
    /\ _start_time = "None"
    /\ clock = 0
    /\ cache = EmptyDict
    /\ admitted = EmptyDict

\* quality_validator.validate_detection_quality(detection)
ValidateDetectionQuality ==
    /\ \E detection \in ValidateInputs :
          last' = [NoCall EXCEPT
                      !.op = "validate_detection_quality",
                      !.input = detection,
                      !.thresholds = quality_validator.quality_thresholds,
                      !.result = validate_detection_quality(
                                     quality_validator.quality_thresholds, detection)]
    /\ UNCHANGED <<config, quality_validator, model_manager, performance_monitor,
                   constructed, boxes, calls, scan_records, requests>>
    /\ UNCHANGED <<_start_time, clock, cache, admitted>>

NextValidate == ValidateDetectionQuality

SpecValidate == InitValidate /\ [][NextValidate]_vars

(***************************************************************************)
(* _process_predictions as a function of its inputs: any results object,   *)
(* boxes outside the picture included, is handed to it with the image.     *)
(***************************************************************************)
\* Boxes reaching outside a 640 x 640 picture
OutsideKinds ==
    { Raw(2, 90, <<-20, -10, 100, 200>>, <<>>, FALSE),
      Raw(1, 90, <<600, 500, 700, 660>>, <<>>, FALSE) }

ProcessInputs ==
    {[kind |-> k, boxes |-> <<>>] : k \in {"no_results", "no_boxes"}}
    \cup {[kind |-> "boxes", boxes |-> b] : b \in SeqsUpTo(RawKinds \cup OutsideKinds, MaxRawSeq)}

\* The arguments of one call are at hand
InitProcess ==
    /\ config \in ConstructionConfigs
    /\ quality_validator = [quality_thresholds |-> config.quality_thresholds]
    /\ model_manager = [model |-> "None", is_loaded |-> FALSE, model_metadata |-> EmptyDict]
    /\ performance_monitor = [inference_times |-> <<>>, class_distribution |-> EmptyDict,
                              quality_scores |-> <<>>]
    /\ constructed = FALSE
    /\ boxes = 0
    /\ calls = 0
    /\ \E results \in ProcessInputs, shape \in ImageShapes :
          last = [NoCall EXCEPT
                     !.op = "arguments",
                     !.input = [results |-> results,
                                image |-> [kind |-> "valid", shape |-> shape]]]
    /\ scan_records = <<>>
    /\ requests = NoRequests
    /\ _start_time = "None"
    /\ clock = 0
    /\ cache = EmptyDict
    /\ admitted = EmptyDict

\* self._process_predictions(raw_predictions, validated_image)
ProcessPredictions ==
    /\ last.op = "arguments"
    /\ last' = [last EXCEPT !.op = "_process_predictions",
                            !.result = _process_predictions(last.input.results)]
    /\ UNCHANGED <<config, quality_validator, model_manager, performance_monitor,
                   constructed, boxes, calls, scan_records, requests>>
    /\ UNCHANGED <<_start_time, clock, cache, admitted>>

NextProcess == ProcessPredictions

SpecProcess == InitProcess /\ [][NextProcess]_vars

(***************************************************************************)
(* The dominant category of a result (ResultAggregator).  The code that    *)
(* computes it (dominant_ripeness of the analysis result and of            *)
(* ScanRecord) is outside the sources at hand; it is written from the      *)
(* aggregator's specification: the zero-initialized 4-key count map, the   *)
(* highest count, ties resolved by the priority order Not Mature, Mature,  *)
(* Ripe, Over Ripe with the earlier category winning.                      *)
(***************************************************************************)
CategoryPriority == <<"Not Mature", "Mature", "Ripe", "Over Ripe">>

\* The zero-initialized 4-key map, incremented per accepted detection
RECURSIVE CategoryCounts(_)
CategoryCounts(class_names) ==
    IF class_names = <<>> THEN [n \in RipenessNames |-> 0]
    ELSE [CategoryCounts(Tail(class_names)) EXCEPT ![Head(class_names)] = @ + 1]

\* The categories are visited in priority order; a later one replaces the
\* best so far only with a strictly higher count
RECURSIVE DominantFrom(_, _, _)
DominantFrom(counts, i, best) ==
    IF i > Len(CategoryPriority) THEN best
    ELSE DominantFrom(counts, i + 1,
                      IF counts[CategoryPriority[i]] > counts[best]
                      THEN CategoryPriority[i] ELSE best)

\* The dominant category taken in the order the categories are first met
\* in the detections: the first detection's category wins a tie
RECURSIVE DominantCategory_FirstSeen(_)
DominantCategory_FirstSeen(class_names) ==
    IF class_names = <<>> THEN CategoryPriority[1]
    ELSE LET counts == CategoryCounts(class_names)
             first == Head(class_names)
         IN IF \A n \in RipenessNames : counts[n] <= counts[first] THEN first
            ELSE DominantCategory_FirstSeen(Tail(class_names))

DominantCategory(class_names) ==
    DominantFrom(CategoryCounts(class_names), 2, CategoryPriority[1])

\* The class names of the accepted detections of one result
InitDominant ==
    /\ config \in ConstructionConfigs
    /\ quality_validator = [quality_thresholds |-> config.quality_thresholds]
    /\ model_manager = [model |-> "None", is_loaded |-> FALSE, model_metadata |-> EmptyDict]
    /\ performance_monitor = [inference_times |-> <<>>, class_distribution |-> EmptyDict,
                              quality_scores |-> <<>>]
    /\ constructed = FALSE
    /\ boxes = 0
    /\ calls = 0
    /\ \E class_names \in SeqsUpTo(RipenessNames, MaxDetections) :
          last = [NoCall EXCEPT !.op = "class_names", !.input = class_names]
    /\ scan_records = <<>>
    /\ requests = NoRequests
    /\ _start_time = "None"
    /\ clock = 0
    /\ cache = EmptyDict
    /\ admitted = EmptyDict

\* The aggregator computes the dominant category of the result
AggregateDominant ==
    /\ last.op = "class_names"
    /\ last' = [last EXCEPT !.op = "dominant_category",
                            !.result = DominantCategory(last.input)]
    /\ UNCHANGED <<config, quality_validator, model_manager, performance_monitor,
                   constructed, boxes, calls, scan_records, requests>>
    /\ UNCHANGED <<_start_time, clock, cache, admitted>>

NextDominant == AggregateDominant

SpecDominant == InitDominant /\ [][NextDominant]_vars

(***************************************************************************)
(* Requests served by threads of one server process.  MLAnalysisView.post  *)
(* and BulkAnalysisView.post take the detector of get_detector() and call  *)
(* classify_bananas on it; neither the views nor the detector take a lock. *)
(* A handler is a sequence of steps, and the steps of different handlers   *)
(* interleave.                                                             *)
(***************************************************************************)
RequestViews == {"ml_analysis", "bulk_analysis"}

\* What the runtime returns to a call made by a request handler
RequestRuntimes(manager, reached, conf) ==
    {rt \in RuntimeChoices(manager, reached, conf, 1) :
        /\ rt.results.kind # "no_results"
        /\ rt.results.kind = "boxes" => rt.results.boxes # <<>>}

\* The handler runs up to its call of classify_bananas: MLAnalysisView.post
\* has updated detector.config from the request, BulkAnalysisView.post has
\* only fetched the detector
StartRequest(r) ==
    /\ constructed
    /\ requests[r].pc = "idle"
    /\ \E view \in RequestViews, image \in UploadedImages :
       \E confidence_threshold \in IF view = "ml_analysis" THEN RequestThresholds
                                    ELSE {DefaultConfidence} :
          /\ config' = IF view = "ml_analysis"
                        THEN ConfigUpdate(config, confidence_threshold, DefaultIou)
                        ELSE config
          /\ requests' = [requests EXCEPT ![r] =
                             [pc |-> "configured", view |-> view, image |-> image,
                              confidence_threshold |-> confidence_threshold,
                              conf_used |-> 0]]
    /\ UNCHANGED <<quality_validator, model_manager, performance_monitor, constructed,
                   boxes, calls, last, scan_records>>
    /\ UNCHANGED <<_start_time, clock, cache, admitted>>

\* classify_bananas is entered: self._start_time is set, the try block begins
EnterClassify(r) ==
    /\ requests[r].pc = "configured"
    /\ requests' = [requests EXCEPT ![r].pc = "classifying"]
    /\ _start_time' = clock
    /\ UNCHANGED <<config, quality_validator, model_manager, performance_monitor,
                   constructed, boxes, calls, last, scan_records>>
    /\ UNCHANGED <<clock, cache, admitted>>

\* classify_bananas runs to its return: the runtime is called with the
\* confidence_threshold detector.config holds at that moment
LeaveClassify(r) ==
    /\ requests[r].pc = "classifying"
    /\ \E dt \in Durations :
       \E runtime \in RequestRuntimes(model_manager, requests[r].image.kind = "valid",
                                      config.confidence_threshold) :
          /\ Returns("classify_bananas", requests[r].image, runtime,
                     config.confidence_threshold,
                     classify_bananas(model_manager, quality_validator.quality_thresholds,
                                      performance_monitor, requests[r].image, runtime, dt))
          /\ requests' = [requests EXCEPT ![r].pc = "done",
                                          ![r].conf_used = config.confidence_threshold]
    /\ UNCHANGED <<config, quality_validator, model_manager, constructed, scan_records>>
    /\ UNCHANGED <<_start_time, clock, cache, admitted>>

NextRequests ==
    \/ Initialize
    \/ \E r \in Requests : StartRequest(r)
    \/ \E r \in Requests : EnterClassify(r)
    \/ \E r \in Requests : LeaveClassify(r)

SpecRequests == Init /\ [][NextRequests]_vars

(***************************************************************************)
(* PredictionView.post and PredictionDetailView.get (api/ml_views.py) on   *)
(* the ScanRecord table.  A row has the fields of the ScanRecord model     *)
(* class (api/models.py); None is written "None".  The ML service          *)
(* (ml.services.unified_ml_service) is the environment: it raises or       *)
(* returns an analysis result.                                             *)
(***************************************************************************)
\* ScanRecord.objects.create(user=..., image=..., banana_count=0,
\* ripeness_results=[], avg_confidence=0.0): the other fields take the
\* defaults of the model class
NewScanRecord(id, user) ==
    [id |-> id,
     user |-> user,
     banana_count |-> 0,
     ripeness_results |-> <<>>,
     avg_confidence |-> 0,
     not_mature_count |-> 0,
     mature_count |-> 0,
     ripe_count |-> 0,
     over_ripe_count |-> 0,
     has_errors |-> FALSE,
     error_message |-> "None"]

\* Reading an attribute of a model instance: AttributeError when the model
\* class declares no such field
GetAttr(record, name) ==
    IF name \in DOMAIN record THEN Ok(record[name]) ELSE Raise("AttributeError")

\* What request.FILES holds
PredictionUploads == {"none", "too_large", "bad_type", "bad_webp", "ok"}

\* What ml_service.analyze_image_from_upload does: raises, or returns a
\* result with the ripeness of each detection
MLOutcomes ==
    {[raises |-> TRUE, ripeness |-> <<>>]}
    \cup {[raises |-> FALSE, ripeness |-> names] :
            names \in {<<>>, <<"Mature">>, <<"Ripe", "Mature">>}}

\* Step 1 of PredictionView.post: the 400 answers
PredictionBadRequest(upload) ==
    [status |-> 400,
     error |-> CASE upload = "none" -> "No image provided"
                 [] upload = "too_large" -> "Image too large"
                 [] upload = "bad_type" -> "Invalid file format"
                 [] OTHER -> "Invalid WebP file"]

\* What can raise in Steps 4 to 6, after the ML analysis has returned: the
\* conversion of the results, scan_record.save(), ActivityLog.objects.create
PredictionFaults == {"none", "convert", "save", "activity_log"}

\* The outer except block of PredictionView.post.  ml_calls counts the
\* calls of ml_service.analyze_image_from_upload the request has made.
PipelineFailed(records) ==
    [records |-> records,
     ml_calls |-> 0,
     response |-> [status |-> 500, error |-> "Prediction pipeline failed"]]

\* The except block around the ML analysis: error_message is set on the
\* instance, retry_count is read and increased, the row is saved and the
\* 500 'AI analysis failed' is returned; an exception raised on the way
\* reaches the outer except block before save()
MLFailed(records, scan_record, retry_count) ==
    IF retry_count.exc # "None" THEN PipelineFailed(records)
    ELSE [records |-> [records EXCEPT ![scan_record.id] =
                          [scan_record EXCEPT !.error_message = "Model failed",
                                              !.retry_count = retry_count.value + 1]],
          ml_calls |-> 0,
          response |-> [status |-> 500, error |-> "AI analysis failed",
                        scan_id |-> scan_record.id,
                        retry_count |-> retry_count.value + 1]]

\* _convert_ripeness_distribution and the conversion of Step 4: counts
\* under the lower-case keys
LowerDistribution(ripeness) ==
    [not_mature |-> Cardinality({i \in 1..Len(ripeness) : ripeness[i] = "Not Mature"}),
     mature |-> Cardinality({i \in 1..Len(ripeness) : ripeness[i] = "Mature"}),
     ripe |-> Cardinality({i \in 1..Len(ripeness) : ripeness[i] = "Ripe"}),
     over_ripe |-> Cardinality({i \in 1..Len(ripeness) : ripeness[i] = "Over Ripe"})]

\* Steps 4 to 7: the row is updated from the analysis result and saved
MLSucceeded(records, scan_record, ml) ==
    [records |-> [records EXCEPT ![scan_record.id] =
                     [scan_record EXCEPT !.banana_count = Len(ml.ripeness),
                                         !.ripeness_results = ml.ripeness,
                                         !.avg_confidence = 90,
                                         !.error_message = "None"]],
     ml_calls |-> 0,
     response |-> [status |-> 200,
                   id |-> scan_record.id,
                   total_count |-> Len(ml.ripeness),
                   ripeness_distribution |-> LowerDistribution(ml.ripeness),
                   bounding_boxes |-> ml.ripeness]]

\* Steps 4 to 7 with what can raise on the way: an exception reaches the
\* outer except block, before save() (the row stays as created) or after
\* it (the row holds the results)
PredictionResults(records, scan_record, ml, fault) ==
    IF fault \in {"convert", "save"} THEN PipelineFailed(records)
    ELSE IF fault = "activity_log"
        THEN PipelineFailed(MLSucceeded(records, scan_record, ml).records)
    ELSE MLSucceeded(records, scan_record, ml)

\* Step 3 and what follows it: the ML service is called once (get_ml_service
\* raising is handled by the same except block as the analysis raising)
PredictionAnalyse(records, scan_record, ml, fault) ==
    [(IF ml.raises THEN MLFailed(records, scan_record, GetAttr(scan_record, "retry_count"))
      ELSE PredictionResults(records, scan_record, ml, fault))
     EXCEPT !.ml_calls = 1]

\* PredictionView.post creating the row before it validates the upload
PredictionHandle_CreatesFirst(records, user, upload, db_ok, ml, fault) ==
    IF ~db_ok THEN PipelineFailed(records)
    ELSE IF upload # "ok"
        THEN [records |-> Append(records, NewScanRecord(Len(records) + 1, user)),
              ml_calls |-> 0,
              response |-> PredictionBadRequest(upload)]
    ELSE PredictionAnalyse(Append(records, NewScanRecord(Len(records) + 1, user)),
                           NewScanRecord(Len(records) + 1, user), ml, fault)

\* PredictionView.post
PredictionHandle(records, user, upload, db_ok, ml, fault) ==
    IF upload # "ok"
    THEN [records |-> records, ml_calls |-> 0, response |-> PredictionBadRequest(upload)]
    ELSE IF ~db_ok THEN PipelineFailed(records)
    ELSE PredictionAnalyse(Append(records, NewScanRecord(Len(records) + 1, user)),
                           NewScanRecord(Len(records) + 1, user), ml, fault)

PredictionPost ==
    /\ \E user \in Users, upload \in PredictionUploads, db_ok \in BOOLEAN,
          ml \in MLOutcomes, fault \in PredictionFaults :
          /\ upload = "ok" /\ db_ok => Len(scan_records) < MaxRecords
          /\ upload # "ok" => db_ok          \* the database is not reached
          /\ upload # "ok" \/ ~db_ok => ml.raises   \* the ML service is not reached
          /\ ml.raises => fault = "none"     \* Step 4 is not reached
          /\ LET done == PredictionHandle(scan_records, user, upload, db_ok, ml, fault)
             IN /\ scan_records' = done.records
                /\ last' = [NoCall EXCEPT
                               !.op = "prediction_post",
                               !.input = [user |-> user, upload |-> upload,
                                          db_ok |-> db_ok, ml |-> ml, fault |-> fault,
                                          records_before |-> Len(scan_records)],
                               !.runtime = [ml_calls |-> done.ml_calls],
                               !.result = done.response]
    /\ UNCHANGED <<config, quality_validator, model_manager, performance_monitor,
                   constructed, boxes, calls, requests>>
    /\ UNCHANGED <<_start_time, clock, cache, admitted>>

\* ScanRecord.objects.get(id=pk) without the user filter
FindRecord_AnyOwner(records, pk, user) ==
    {i \in 1..Len(records) : records[i].id = pk}

\* ScanRecord.objects.get(id=pk, user=request.user): the matching rows
FindRecord(records, pk, user) ==
    {i \in 1..Len(records) : records[i].id = pk /\ records[i].user = user}

\* The 404 of the except ScanRecord.DoesNotExist block
PredictionNotFound(pk) ==
    [status |-> 404, error |-> "Prediction not found", details |-> pk]

\* The 200 of PredictionDetailView.get
PredictionDetail(record) ==
    [status |-> 200,
     id |-> record.id,
     total_count |-> record.banana_count,
     ripeness_distribution |-> LowerDistribution(record.ripeness_results),
     confidence |-> record.avg_confidence,
     bounding_boxes |-> record.ripeness_results]

\* PredictionDetailView.get
PredictionDetailResponse(records, pk, found) ==
    IF found = {} THEN PredictionNotFound(pk)
    ELSE PredictionDetail(records[CHOOSE i \in found : TRUE])

PredictionDetailGet ==
    /\ \E user \in Users, pk \in 1..(MaxRecords + 1) :
          last' = [NoCall EXCEPT
                      !.op = "prediction_detail_get",
                      !.input = [user |-> user, pk |-> pk],
                      !.result = PredictionDetailResponse(scan_records, pk,
                                     FindRecord(scan_records, pk, user))]
    /\ UNCHANGED <<config, quality_validator, model_manager, performance_monitor,
                   constructed, boxes, calls, scan_records, requests>>
    /\ UNCHANGED <<_start_time, clock, cache, admitted>>

NextPrediction ==
    \/ PredictionPost
    \/ PredictionDetailGet

SpecPrediction == Init /\ [][NextPrediction]_vars

(***************************************************************************)
(* calculate_quality_score as a function of its input: the detection       *)
(* _process_predictions has built from one raw record, before the score is *)
(* stored in it.                                                           *)
(***************************************************************************)
\* A contour of n >= 4 vertices around a w x h rectangle: n - 2 vertices on
\* the lower edge, then the two upper corners
RectPolygon(n, w, h) ==
    [i \in 1..n |->
        IF i <= n - 2 THEN <<((i - 1) * w) \div (n - 3), 0>>
        ELSE IF i = n - 1 THEN <<w, h>>
        ELSE <<0, h>>]

\* Mask contours of the runtime: from a single point to more vertices than
\* the reference count, enclosing from nothing to more than the reference
\* area
ScoreMasks ==
    {<< <<0, 0>> >>, Segment, Triangle}
    \cup {RectPolygon(n, 240, h) : n \in 4..MaxScoreVertices,
                                   h \in {0, 2, 40, 42, 100}}

\* The detections handed to calculate_quality_score: confidence of the
\* runtime in [0, 1], polygon of the mask, area of the polygon
ScoreInputs ==
    {[ExtractDetection(Raw(1, conf, <<0, 0, 240, 100>>, mask, FALSE))
         EXCEPT !.quality_score = 0] :
        conf \in {0, 1, 75, 99, 100}, mask \in ScoreMasks}

InitScore ==
    /\ config \in ConstructionConfigs
    /\ quality_validator = [quality_thresholds |-> config.quality_thresholds]
    /\ model_manager = [model |-> "None", is_loaded |-> FALSE, model_metadata |-> EmptyDict]
    /\ performance_monitor = [inference_times |-> <<>>, class_distribution |-> EmptyDict,
                              quality_scores |-> <<>>]
    /\ constructed = FALSE
    /\ boxes = 0
    /\ calls = 0
    /\ \E detection \in ScoreInputs :
          last = [NoCall EXCEPT !.op = "detection", !.input = detection]
    /\ scan_records = <<>>
    /\ requests = NoRequests
    /\ _start_time = "None"
    /\ clock = 0
    /\ cache = EmptyDict
    /\ admitted = EmptyDict

\* self.quality_validator.calculate_quality_score(detection)
CalculateQualityScore ==
    /\ last.op = "detection"
    /\ last' = [last EXCEPT !.op = "calculate_quality_score",
                            !.result = calculate_quality_score(last.input)]
    /\ UNCHANGED <<config, quality_validator, model_manager, performance_monitor,
                   constructed, boxes, calls, scan_records, requests>>
    /\ UNCHANGED <<_start_time, clock, cache, admitted>>

NextScore == CalculateQualityScore

SpecScore == InitScore /\ [][NextScore]_vars

(***************************************************************************)
(* _calculate_polygon_area as a function of its input: any list of points, *)
(* in either orientation, degenerate and self-crossing ones included.      *)
(***************************************************************************)
UnitSquare == << <<0, 0>>, <<1, 0>>, <<1, 1>>, <<0, 1>> >>

GridPoints == {<<x, y>> : x \in {0, 2}, y \in {0, 2}}

AreaInputs ==
    SeqsUpTo(GridPoints, MaxVertices)
    \cup {UnitSquare, [i \in 1..4 |-> UnitSquare[5 - i]]}

InitArea ==
    /\ config \in ConstructionConfigs
    /\ quality_validator = [quality_thresholds |-> config.quality_thresholds]
    /\ model_manager = [model |-> "None", is_loaded |-> FALSE, model_metadata |-> EmptyDict]
    /\ performance_monitor = [inference_times |-> <<>>, class_distribution |-> EmptyDict,
                              quality_scores |-> <<>>]
    /\ constructed = FALSE
    /\ boxes = 0
    /\ calls = 0
    /\ \E polygon \in AreaInputs :
          last = [NoCall EXCEPT !.op = "polygon", !.input = polygon]
    /\ scan_records = <<>>
    /\ requests = NoRequests
    /\ _start_time = "None"
    /\ clock = 0
    /\ cache = EmptyDict
    /\ admitted = EmptyDict

\* self._calculate_polygon_area(polygon)
CalculatePolygonArea ==
    /\ last.op = "polygon"
    /\ last' = [last EXCEPT !.op = "_calculate_polygon_area",
                            !.result = _calculate_polygon_area(last.input)]
    /\ UNCHANGED <<config, quality_validator, model_manager, performance_monitor,
                   constructed, boxes, calls, scan_records, requests>>
    /\ UNCHANGED <<_start_time, clock, cache, admitted>>

NextArea == CalculatePolygonArea

SpecArea == InitArea /\ [][NextArea]_vars

(***************************************************************************)
(* classify_bananas run by several threads on the detector of              *)
(* get_detector(), statement by statement: self._start_time, the           *)
(* PerformanceMonitor lists and its class_distribution dict are attributes *)
(* of the one shared instance, and no statement takes a lock.  The         *)
(* statement  d[k] = d.get(k, 0) + 1  of log_inference is a read followed  *)
(* by a write.                                                             *)
(***************************************************************************)
\* What the runtime returns to a call made by a thread
ThreadRuntimes(manager, reached, conf) ==
    {rt \in RuntimeChoices(manager, reached, conf, MaxLogged) :
        /\ rt.results.kind # "no_results"
        /\ \A i \in 1..Len(rt.results.boxes) :
              rt.results.boxes[i].cls \in {1, 2} /\ ~rt.results.boxes[i].malformed}

\* self._start_time = time.time()
ThreadEnter(r) ==
    /\ constructed
    /\ requests[r].pc = "idle"
    /\ \E image \in UploadedImages :
          requests' = [requests EXCEPT ![r] =
                          [pc |-> "entered", image |-> image, started |-> clock,
                           exc |-> "None", detections |-> <<>>,
                           result |-> FailureResult(0, "None"), ended |-> 0,
                           i |-> 0, count |-> 0]]
    /\ _start_time' = clock
    /\ clock' = clock + 1
    /\ UNCHANGED <<config, quality_validator, model_manager, performance_monitor,
                   constructed, boxes, calls, last, scan_records, cache, admitted>>

\* The steps of the try block up to "Quality validation": they work on the
\* thread's own data and take time
ThreadPipeline(r) ==
    /\ requests[r].pc = "entered"
    /\ \E runtime \in ThreadRuntimes(model_manager, requests[r].image.kind = "valid",
                                     config.confidence_threshold) :
          LET validated_image == _validate_input_image(requests[r].image)
              raw_predictions == _run_inference(model_manager, runtime)
          IN requests' = [requests EXCEPT ![r] =
                 IF validated_image.exc # "None"
                 THEN [@ EXCEPT !.pc = "failing", !.exc = validated_image.exc]
                 ELSE IF raw_predictions.exc # "None"
                 THEN [@ EXCEPT !.pc = "failing", !.exc = raw_predictions.exc]
                 ELSE [@ EXCEPT !.pc = "validated",
                                !.detections = _validate_detections(
                                    quality_validator.quality_thresholds,
                                    _process_predictions(raw_predictions.value))]]
    /\ clock' = clock + 1
    /\ UNCHANGED <<config, quality_validator, model_manager, performance_monitor,
                   constructed, boxes, calls, last, scan_records, _start_time,
                   cache, admitted>>

\* result = self._format_output(...): processing_time is
\* time.time() - self._start_time
ThreadFormat(r) ==
    /\ requests[r].pc = "validated"
    /\ requests' = [requests EXCEPT
                       ![r].pc = "formatted",
                       ![r].ended = clock,
                       ![r].result = _format_output(requests[r].detections,
                                                    requests[r].image,
                                                    clock - _start_time,
                                                    model_manager.model_metadata)]
    /\ UNCHANGED <<config, quality_validator, model_manager, performance_monitor,
                   constructed, boxes, calls, last, scan_records, _start_time, clock,
                   cache, admitted>>

\* The except block: processing_time=time.time() - self._start_time
ThreadFail(r) ==
    /\ requests[r].pc = "failing"
    /\ requests' = [requests EXCEPT
                       ![r].pc = "done",
                       ![r].ended = clock,
                       ![r].result = FailureResult(clock - _start_time, requests[r].exc)]
    /\ UNCHANGED <<config, quality_validator, model_manager, performance_monitor,
                   constructed, boxes, calls, last, scan_records, _start_time, clock,
                   cache, admitted>>

\* log_inference: self.inference_times.append(processing_time)
LogAppendTime(r) ==
    /\ requests[r].pc = "formatted"
    /\ performance_monitor' =
          [performance_monitor EXCEPT
              !.inference_times = Append(@, requests[r].result.processing_time)]
    /\ requests' = [requests EXCEPT
                       ![r].pc = IF requests[r].detections = <<>> THEN "done" ELSE "read",
                       ![r].i = 1]
    /\ UNCHANGED <<config, quality_validator, model_manager, constructed, boxes, calls,
                   last, scan_records, _start_time, clock, cache, admitted>>

\* log_inference: self.class_distribution.get(class_name, 0) is read
LogReadCount(r) ==
    /\ requests[r].pc = "read"
    /\ requests' = [requests EXCEPT
                       ![r].pc = "write",
                       ![r].count = Get(performance_monitor.class_distribution,
                                        requests[r].detections[requests[r].i].class_name, 0)]
    /\ UNCHANGED <<config, quality_validator, model_manager, performance_monitor,
                   constructed, boxes, calls, last, scan_records, _start_time, clock,
                   cache, admitted>>

\* log_inference: self.class_distribution[class_name] = <the value read> + 1
LogWriteCount(r) ==
    /\ requests[r].pc = "write"
    /\ LET class_name == requests[r].detections[requests[r].i].class_name
           d == performance_monitor.class_distribution
       IN performance_monitor' =
             [performance_monitor EXCEPT
                 !.class_distribution =
                     [x \in (DOMAIN d) \cup {class_name} |->
                         IF x = class_name THEN requests[r].count + 1 ELSE d[x]]]
    /\ requests' = [requests EXCEPT ![r].pc = "score"]
    /\ UNCHANGED <<config, quality_validator, model_manager, constructed, boxes, calls,
                   last, scan_records, _start_time, clock, cache, admitted>>

\* log_inference: self.quality_scores.append(detection.quality_score), then
\* the next detection or the return
LogAppendScore(r) ==
    /\ requests[r].pc = "score"
    /\ performance_monitor' =
          [performance_monitor EXCEPT
              !.quality_scores =
                  Append(@, requests[r].detections[requests[r].i].quality_score)]
    /\ requests' = [requests EXCEPT
                       ![r].pc = IF requests[r].i = Len(requests[r].detections)
                                 THEN "done" ELSE "read",
                       ![r].i = @ + 1]
    /\ UNCHANGED <<config, quality_validator, model_manager, constructed, boxes, calls,
                   last, scan_records, _start_time, clock, cache, admitted>>

NextThreads ==
    \/ Initialize
    \/ \E r \in Requests : ThreadEnter(r)
    \/ \E r \in Requests : ThreadPipeline(r)
    \/ \E r \in Requests : ThreadFormat(r)
    \/ \E r \in Requests : ThreadFail(r)
    \/ \E r \in Requests : LogAppendTime(r)
    \/ \E r \in Requests : LogReadCount(r)
    \/ \E r \in Requests : LogWriteCount(r)
    \/ \E r \in Requests : LogAppendScore(r)

SpecThreads == Init /\ [][NextThreads]_vars

(***************************************************************************)
(* RateLimitMiddleware.process_request (api/middleware.py), run by the     *)
(* threads that serve the requests.  The counter of a key lives in the     *)
(* Django cache; it is read with cache.get and written back with           *)
(* cache.set, and the cache drops it when its timeout has passed.          *)
(***************************************************************************)
ClientIPs == {"203.0.113.7"}

\* The paths requested: the prediction endpoint and a path outside /api/.
\* The other paths under /api/ run the same statements with the limit 100.
RequestPaths == {"/api/predict/", "/admin/"}

\* request.path.startswith('/api/') and request.path.startswith('/api/predict/')
IsApiPath(path) == path \in {"/api/predict/", "/api/health/"}

IsPredictPath(path) == path = "/api/predict/"

\* limit of the path
RateLimit(path) == IF IsPredictPath(path) THEN PredictLimit ELSE ApiLimit

\* cache_key = f"rate_limit:{ip}:{request.path}"
CacheKey(ip, path) == <<"rate_limit", ip, path>>

\* cache.set(key, value, window)
CacheSet(c, key, value) ==
    [k \in (DOMAIN c) \cup {key} |-> IF k = key THEN value ELSE c[k]]

\* The JsonResponse with status 429
RateLimitExceeded(limit) ==
    [returns |-> "JsonResponse", status |-> 429, error |-> "Rate limit exceeded",
     limit |-> limit]

\* process_request returned None: the request goes on to the view
Admitted == [returns |-> "None"]

\* The requests that have read a counter and not yet written it back
Counting == {r \in Requests : requests[r].pc = "counted"}

\* process_request up to the test of the counter: a path outside /api/ is
\* let through, a counter at the limit gives 429, otherwise the thread
\* holds the count it has read
RateLimitCheck(r) ==
    /\ requests[r].pc = "idle"
    /\ \E ip \in ClientIPs, path \in RequestPaths :
          LET key == CacheKey(ip, path)
              current_count == Get(cache, key, 0)
          IN IF ~IsApiPath(path)
             THEN /\ last' = [NoCall EXCEPT !.op = "process_request",
                                            !.input = [ip |-> ip, path |-> path,
                                                       current_count |-> current_count],
                                            !.result = Admitted]
                  /\ UNCHANGED requests
             ELSE IF current_count >= RateLimit(path)
             THEN /\ last' = [NoCall EXCEPT !.op = "process_request",
                                            !.input = [ip |-> ip, path |-> path,
                                                       current_count |-> current_count],
                                            !.result = RateLimitExceeded(RateLimit(path))]
                  /\ UNCHANGED requests
             ELSE /\ DictSum(admitted) + Cardinality(Counting) < MaxAdmitted
                  /\ requests' = [requests EXCEPT ![r] =
                                     [pc |-> "counted", ip |-> ip, path |-> path,
                                      current_count |-> current_count]]
                  /\ UNCHANGED last
    /\ UNCHANGED <<config, quality_validator, model_manager, performance_monitor,
                   constructed, boxes, calls, scan_records, _start_time, clock,
                   cache, admitted>>

\* cache.set(cache_key, current_count + 1, window); return None
RateLimitIncrement(r) ==
    /\ requests[r].pc = "counted"
    /\ LET key == CacheKey(requests[r].ip, requests[r].path)
       IN /\ cache' = CacheSet(cache, key, requests[r].current_count + 1)
          /\ admitted' = DictIncrement(admitted, key)
    /\ last' = [NoCall EXCEPT !.op = "process_request",
                              !.input = [ip |-> requests[r].ip, path |-> requests[r].path,
                                         current_count |-> requests[r].current_count],
                              !.result = Admitted]
    /\ requests' = [requests EXCEPT ![r] = [pc |-> "idle"]]
    /\ UNCHANGED <<config, quality_validator, model_manager, performance_monitor,
                   constructed, boxes, calls, scan_records, _start_time, clock>>

\* The timeout of a counter has passed: the cache no longer holds the key
CacheExpire ==
    /\ \E key \in DOMAIN cache :
          /\ cache' = [k \in (DOMAIN cache) \ {key} |-> cache[k]]
          /\ admitted' = [k \in (DOMAIN admitted) \ {key} |-> admitted[k]]
    /\ UNCHANGED <<config, quality_validator, model_manager, performance_monitor,
                   constructed, boxes, calls, last, scan_records, requests,
                   _start_time, clock>>

NextRateLimit ==
    \/ \E r \in Requests : RateLimitCheck(r)
    \/ \E r \in Requests : RateLimitIncrement(r)
    \/ CacheExpire

SpecRateLimit == Init /\ [][NextRateLimit]_vars

(***************************************************************************)
(* Vocabulary of the properties.                                           *)
(***************************************************************************)
DetectorCalls == {"classify_bananas", "ml_analysis_post",
                  "classify_bananas_from_path", "predict"}

\* The latest call returned a successful AnalysisResult
Successful == last.op \in DetectorCalls /\ ~last.raised /\ last.result.success

\* The raw boxes the runtime returned to the latest call
RawBoxes == last.runtime.results.boxes

\* The latest call reached model.predict and got an answer
GotAnswer ==
    /\ last.op \in DetectorCalls
    /\ last.runtime.results.kind \in {"no_results", "no_boxes", "boxes"}
    /\ ~last.runtime.raises

\* Detection d is the one extracted from raw box r
Matches(d, r) == d.class_id = r.cls /\ d.confidence = r.conf /\ d.bbox = r.xyxy

Distribution == last.result.metadata.ripeness_distribution

Bool2Int(b) == IF b THEN 1 ELSE 0

RECURSIVE SumOver(_, _)
SumOver(S, f) ==
    IF S = {} THEN 0
    ELSE LET x == CHOOSE y \in S : TRUE IN f[x] + SumOver(S \ {x}, f)

(***************************************************************************)
(* BulkAnalysisView.post: the uploaded images are processed one after the  *)
(* other on the shared detector, each inside its own try block.            *)
(***************************************************************************)
\* The users who send batches
Uploaders == {"farmer1"}

\* Number of detections of a result that carry the class name
CountOf(detections, name) ==
    Cardinality({i \in 1..Len(detections) : detections[i].class_name = name})

\* The ScanRecord row _save_analysis_results creates: the 4 count columns
\* count the detections of the 4 known names, banana_count all of them
ScanRecordRow(id, user, analysis_result) ==
    [id |-> id,
     user |-> user,
     banana_count |-> Len(analysis_result.detections),
     ripeness_results |-> [i \in 1..Len(analysis_result.detections) |->
                              analysis_result.detections[i].class_name],
     avg_confidence |-> Get(analysis_result.quality_metrics, "avg_confidence", 0),
     detections_data |-> analysis_result.detections,
     not_mature_count |-> CountOf(analysis_result.detections, "Not Mature"),
     mature_count |-> CountOf(analysis_result.detections, "Mature"),
     ripe_count |-> CountOf(analysis_result.detections, "Ripe"),
     over_ripe_count |-> CountOf(analysis_result.detections, "Over Ripe"),
     has_errors |-> ~analysis_result.success,
     error_message |-> analysis_result.error_message]

\* _save_analysis_results: the table afterwards and the id of the new row,
\* 0 (None) when ScanRecord.objects.create raised
_save_analysis_results(records, user, analysis_result, db_ok) ==
    IF db_ok
    THEN [records |-> Append(records, ScanRecordRow(Len(records) + 1, user, analysis_result)),
          id |-> Len(records) + 1]
    ELSE [records |-> records, id |-> 0]

\* What one uploaded file of a batch can be: a file PIL cannot decode, or a
\* decodable picture together with what the runtime does with it
TruncatedUpload == [upload |-> [kind |-> "truncated", shape |-> <<0, 0>>],
                    runtime |-> NotCalled, dt |-> 0]

BulkBoxes ==
    {<<>>} \cup {<<r>> : r \in {k \in RawKinds : k.cls \in {2, 3} /\ ~k.malformed}}

BulkItems(manager, conf) ==
    {TruncatedUpload}
    \cup {[upload |-> image, runtime |-> runtime, dt |-> dt] :
            image \in {u \in UploadedImages : u.kind = "valid"},
            dt \in Durations,
            runtime \in {rt \in RuntimeChoices(manager, TRUE, conf, 1) :
                            /\ rt.results.boxes \in BulkBoxes
                            /\ rt.results.kind # "no_results"
                            /\ rt.results.kind = "boxes" => rt.results.boxes # <<>>}}

\* BulkAnalysisView._process_uploaded_image
BulkProcessUploadedImage(upload) ==
    IF upload.kind = "truncated" THEN Raise("cannot identify image file")
    ELSE Ok(upload)

\* The dict appended by the except block of the loop
FailedEntry(i, message) ==
    [index |-> i, success |-> FALSE, error_message |-> message]

\* The dict appended at the end of the try block of the loop
AnalysedEntry(i, analysis_result, scan_record_id) ==
    [index |-> i,
     success |-> analysis_result.success,
     banana_count |-> Len(analysis_result.detections),
     processing_time |-> analysis_result.processing_time,
     quality_score |-> Get(analysis_result.quality_metrics, "avg_quality_score", 0),
     scan_record_id |-> scan_record_id,
     error_message |-> analysis_result.error_message]

\* The loop body from "Save results if requested" on
BulkSave(i, acc, analysis_result, saved) ==
    [acc EXCEPT !.results = Append(@, AnalysedEntry(i, analysis_result, saved.id)),
                !.records = saved.records]

\* The loop body after classify_bananas has returned or raised
BulkClassified(i, user, save, acc, out) ==
    IF out.raised
    THEN [acc EXCEPT !.results = Append(@, FailedEntry(i, out.result.error_message)),
                     !.monitor = out.monitor]
    ELSE BulkSave(i, [acc EXCEPT !.monitor = out.monitor], out.result,
                  IF save.save_results /\ out.result.success
                  THEN _save_analysis_results(acc.records, user, out.result, save.db_ok)
                  ELSE [records |-> acc.records, id |-> 0])

\* One iteration of the loop without its try / except: the exception of
\* one image leaves the loop
BulkStep_NoHandler(item, i, manager, thresholds, user, save, acc, image) ==
    IF image.exc # "None"
    THEN [acc EXCEPT !.exc = image.exc]
    ELSE BulkClassified(i, user, save, acc,
                        classify_bananas(manager, thresholds, acc.monitor,
                                         image.value, item.runtime, item.dt))

\* One iteration of "for i, image_file in enumerate(images)"
BulkStep(item, i, manager, thresholds, user, save, acc, image) ==
    IF image.exc # "None"
    THEN [acc EXCEPT !.results = Append(@, FailedEntry(i, image.exc))]
    ELSE BulkClassified(i, user, save, acc,
                        classify_bananas(manager, thresholds, acc.monitor,
                                         image.value, item.runtime, item.dt))

\* The loop over the images, in input order
RECURSIVE BulkLoop(_, _, _, _, _, _)
BulkLoop(items, manager, thresholds, user, save, acc) ==
    IF Len(acc.results) = Len(items) \/ acc.exc # "None" THEN acc
    ELSE BulkLoop(items, manager, thresholds, user, save,
                  BulkStep(items[Len(acc.results) + 1], Len(acc.results),
                           manager, thresholds, user, save, acc,
                           BulkProcessUploadedImage(items[Len(acc.results) + 1].upload)))

SuccessfulEntries(results) == {i \in 1..Len(results) : results[i].success}

\* The Response of BulkAnalysisView.post: the summary statistics and the
\* results list, or the 500 of the outer except block
BulkResponse(items, acc) ==
    IF acc.exc # "None"
    THEN [status |-> 500, success |-> FALSE, error_message |-> acc.exc, results |-> <<>>]
    ELSE [status |-> 200,
          success |-> TRUE,
          total_images |-> Len(items),
          successful_analyses |-> Cardinality(SuccessfulEntries(acc.results)),
          total_bananas_detected |->
              SumOver(SuccessfulEntries(acc.results),
                      [i \in SuccessfulEntries(acc.results) |-> acc.results[i].banana_count]),
          avg_processing_time |->
              IF SuccessfulEntries(acc.results) = {} THEN 0
              ELSE SumOver(SuccessfulEntries(acc.results),
                           [i \in SuccessfulEntries(acc.results) |->
                               acc.results[i].processing_time])
                   \div Cardinality(SuccessfulEntries(acc.results)),
          results |-> acc.results]

\* save_results of the request and whether the database takes the row
SaveChoices ==
    {[save_results |-> TRUE, db_ok |-> TRUE],
     [save_results |-> TRUE, db_ok |-> FALSE],
     [save_results |-> FALSE, db_ok |-> TRUE]}

\* The 400 of an invalid BulkAnalysisRequestSerializer (no image at all)
BulkBadRequest == [status |-> 400, success |-> FALSE, results |-> <<>>]

\* The handler once the request data are known
BulkHandle(items, acc) ==
    IF items = <<>> THEN [acc EXCEPT !.response = BulkBadRequest]
    ELSE [acc EXCEPT !.response = BulkResponse(items, acc)]

\* BulkAnalysisView.post
BulkAnalysisPost ==
    /\ constructed
    /\ \E user \in Uploaders, save \in SaveChoices,
          items \in SeqsUpTo(BulkItems(model_manager, config.confidence_threshold),
                             MaxBatchImages - calls) :
          LET start == [results |-> <<>>, monitor |-> performance_monitor,
                        records |-> scan_records, exc |-> "None", response |-> <<>>]
              done == BulkHandle(items,
                         BulkLoop(items, model_manager,
                                  quality_validator.quality_thresholds, user, save, start))
          IN /\ performance_monitor' = done.monitor
             /\ scan_records' = done.records
             /\ calls' = calls + Len(items)
             /\ boxes' = boxes + SumSeq([i \in 1..Len(items) |->
                                           Len(items[i].runtime.results.boxes)])
             /\ last' = [NoCall EXCEPT
                            !.op = "bulk_analysis_post",
                            !.input = [items |-> items, user |-> user, save |-> save,
                                      manager |-> model_manager],
                            !.result = done.response,
                            !.was_loaded = model_manager.is_loaded,
                            !.thresholds = quality_validator.quality_thresholds,
                            !.conf_arg = config.confidence_threshold,
                            !.monitor_before = performance_monitor]
    /\ UNCHANGED <<config, quality_validator, model_manager, constructed, requests>>
    /\ UNCHANGED <<_start_time, clock, cache, admitted>>

NextBulk ==
    \/ Initialize
    \/ BulkAnalysisPost

SpecBulk == Init /\ [][NextBulk]_vars

(***************************************************************************)
(* The ripeness count columns of ScanRecord: written by                    *)
(* _save_analysis_results (MLAnalysisView and BulkAnalysisView have the    *)
(* same implementation) and recomputed by ScanRecord.update_ripeness_counts *)
(* when ScanRecordSerializer creates or updates a row with                 *)
(* detections_data.                                                        *)
(***************************************************************************)
\* Detections a successful result can hold: two known classes and a class
\* id outside 0..3
SavedDetections ==
    {ExtractDetection(Raw(cls, 90, <<0, 0, 100, 200>>, <<>>, FALSE)) : cls \in {1, 2, 5}}

\* The successful analysis results handed to _save_analysis_results
SaveInputs ==
    {_format_output(detections, [kind |-> "valid", shape |-> <<640, 640>>], 2,
                    [hash |-> ModelHash]) :
        detections \in SeqsUpTo(SavedDetections, MaxSaved)}

\* ScanRecord.update_ripeness_counts
update_ripeness_counts(record) ==
    LET counts == [name \in RipenessNames |-> CountOf(record.detections_data, name)]
    IN [record EXCEPT !.not_mature_count = counts["Not Mature"],
                      !.mature_count = counts["Mature"],
                      !.ripe_count = counts["Ripe"],
                      !.over_ripe_count = counts["Over Ripe"],
                      !.banana_count = SumOver(RipenessNames, counts)]

\* MLAnalysisView.post / BulkAnalysisView.post, "Save results if requested"
SaveAnalysisResults ==
    /\ Len(scan_records) < MaxRecords
    /\ \E user \in Uploaders, analysis_result \in SaveInputs, db_ok \in BOOLEAN :
          LET saved == _save_analysis_results(scan_records, user, analysis_result, db_ok)
          IN /\ scan_records' = saved.records
             /\ last' = [NoCall EXCEPT !.op = "_save_analysis_results",
                                       !.input = analysis_result,
                                       !.result = saved.id]
    /\ UNCHANGED <<config, quality_validator, model_manager, performance_monitor,
                   constructed, boxes, calls, requests, _start_time, clock, cache,
                   admitted>>

\* ScanRecordSerializer.update on a row with detections_data:
\* instance.update_ripeness_counts(); instance.save()
UpdateRipenessCounts ==
    /\ \E i \in 1..Len(scan_records) :
          /\ scan_records' = [scan_records EXCEPT ![i] = update_ripeness_counts(@)]
          /\ last' = [NoCall EXCEPT !.op = "update_ripeness_counts",
                                    !.input = i,
                                    !.result = update_ripeness_counts(scan_records[i]).banana_count]
    /\ UNCHANGED <<config, quality_validator, model_manager, performance_monitor,
                   constructed, boxes, calls, requests, _start_time, clock, cache,
                   admitted>>

NextSave ==
    \/ SaveAnalysisResults
    \/ UpdateRipenessCounts

SpecSave == Init /\ [][NextSave]_vars

(***************************************************************************)
(* Properties.                                                             *)
(***************************************************************************)
\* C1: in every successful AnalysisResult the category-count map
\* metadata.ripeness_distribution has exactly the 4 keys Not Mature, Mature,
\* Ripe and Over Ripe, whatever was accepted (nothing at all included).
C1_FourFixedKeys ==
    Successful => DOMAIN Distribution = RipenessNames

\* C2: in every successful AnalysisResult the counts of the category-count
\* map add up to the number of detections, which is also
\* quality_metrics.total_detections.
C2_CountsSumToDetections ==
    Successful =>
        /\ DictSum(Distribution) = Len(last.result.detections)
        /\ last.result.quality_metrics.total_detections = Len(last.result.detections)

\* Two accepted detections of one class and one of an unmapped class id
C2_Witness ==
    /\ Successful
    /\ Len(last.result.detections) = 2
    /\ \E i, j \in 1..2 : /\ last.result.detections[i].class_id = 5
                          /\ last.result.detections[j].class_id \in 0..3

EffectiveThreshold(class_name) ==
    Get(last.thresholds, "min_confidence", DefaultMinConfidence)

C5_UnknownClassDropped ==
    Successful =>
        /\ \A j \in 1..Len(last.result.detections) :
              last.result.detections[j].class_id \in DOMAIN RIPENESS_CLASSES
        /\ DOMAIN Distribution \subseteq RipenessNames

\* Indices of the raw boxes of the latest call that pass extraction and
\* quality validation
AcceptedIndices ==
    {i \in 1..Len(RawBoxes) :
        /\ ~RawBoxes[i].malformed
        /\ LET d == ExtractDetection(RawBoxes[i])
               t == last.thresholds
           IN /\ d.confidence >= Get(t, "min_confidence", DefaultMinConfidence)
              /\ Len(d.polygon) >= 3
              /\ d.area >= Get(t, "min_polygon_area", DefaultMinPolygonArea)
              /\ ~AspectRatioExceeds(d.bbox, Get(t, "max_aspect_ratio", DefaultMaxAspectRatio))}

RejectedIndices ==
    {i \in 1..Len(RawBoxes) : ~RawBoxes[i].malformed /\ i \notin AcceptedIndices}

\* C6: a detection rejected by quality validation is dropped entirely: it is
\* not in the result's detections, and total_detections, avg_confidence,
\* avg_quality_score, detection_density, the ripeness distribution and the
\* PerformanceMonitor histogram and quality-score samples count the accepted
\* detections only.
C6_RejectedNotCounted ==
    Successful =>
        LET n == Cardinality(AcceptedIndices)
            conf == [i \in AcceptedIndices |-> RawBoxes[i].conf]
            score == [i \in AcceptedIndices |-> ExtractDetection(RawBoxes[i]).quality_score]
            metrics == last.result.quality_metrics
            shape == last.result.metadata.image_shape
        IN /\ \A i \in RejectedIndices :
                 \A j \in 1..Len(last.result.detections) :
                    ~Matches(last.result.detections[j], RawBoxes[i])
           /\ metrics.total_detections = n
           /\ metrics.avg_confidence = IF n = 0 THEN 0 ELSE SumOver(AcceptedIndices, conf) \div n
           /\ metrics.avg_quality_score = IF n = 0 THEN 0 ELSE SumOver(AcceptedIndices, score) \div n
           /\ metrics.detection_density = (n * 1000000) \div (shape[1] * shape[2])
           /\ DictSum(Distribution) = n
           /\ DictSum(performance_monitor.class_distribution)
                 = DictSum(last.monitor_before.class_distribution) + n
           /\ Len(performance_monitor.quality_scores)
                 = Len(last.monitor_before.quality_scores) + n
           /\ SumSeq(performance_monitor.quality_scores)
                 = SumSeq(last.monitor_before.quality_scores) + SumOver(AcceptedIndices, score)

\* A call gets one box that is rejected and one that is accepted
C6_Witness ==
    /\ Successful
    /\ RejectedIndices # {}
    /\ AcceptedIndices # {}

\* C7: validate_detection_quality rejects a detection exactly when its
\* confidence is below the threshold, or its polygon has fewer than 3
\* vertices, or its area is below the minimum, or its bbox aspect ratio
\* width/height (0 when the height is not positive) is above the maximum;
\* the list of reasons has one entry per violated condition and is empty
\* exactly when the detection is accepted.
C7_ValidateIffNoViolation ==
    last.op = "validate_detection_quality" =>
        LET d == last.input
            t == last.thresholds
            width == d.bbox[3] - d.bbox[1]
            height == d.bbox[4] - d.bbox[2]
            max_ratio == Get(t, "max_aspect_ratio", DefaultMaxAspectRatio)
            low_confidence == d.confidence < Get(t, "min_confidence", DefaultMinConfidence)
            few_vertices == Len(d.polygon) < 3
            small_area == d.area < Get(t, "min_polygon_area", DefaultMinPolygonArea)
            extreme_ratio == height > 0 /\ width > max_ratio * height
            violations == Bool2Int(low_confidence) + Bool2Int(few_vertices)
                          + Bool2Int(small_area) + Bool2Int(extreme_ratio)
        IN /\ last.result.is_valid <=> violations = 0
           /\ Len(last.result.issues) = violations
           /\ last.result.is_valid <=> last.result.issues = <<>>

\* A detection exactly at the confidence threshold rejected for two other
\* reasons
C7_Witness ==
    /\ last.op = "validate_detection_quality"
    /\ last.input.confidence = Get(last.thresholds, "min_confidence", DefaultMinConfidence)
    /\ ~last.result.is_valid
    /\ Len(last.result.issues) = 2

\* C8: when the model returns zero raw detections for a valid image, the
\* call returns a successful AnalysisResult with no detection,
\* total_detections 0 and avg_confidence and avg_quality_score 0.0.
C8_EmptyModelOutput ==
    (GotAnswer /\ Len(RawBoxes) = 0) =>
        /\ ~last.raised
        /\ last.result.success
        /\ last.result.detections = <<>>
        /\ last.result.quality_metrics.total_detections = 0
        /\ last.result.quality_metrics.avg_confidence = 0
        /\ last.result.quality_metrics.avg_quality_score = 0

\* classify_bananas got result.boxes = None from a loaded model
C8_Witness ==
    /\ last.op = "classify_bananas"
    /\ GotAnswer
    /\ last.runtime.results.kind = "no_boxes"
    /\ last.result.success

\* The latest call was given an input, or met a runtime, that makes it fail
FailingCall ==
    \/ last.op \in {"classify_bananas", "ml_analysis_post"} /\ last.input.kind # "valid"
    \/ last.op \in {"classify_bananas_from_path", "predict"}
          /\ last.input \in {"none", "b64_malformed", "file_unreadable"}
    \/ last.op \in DetectorCalls /\ last.runtime.raises
    \/ last.op \in DetectorCalls /\ ~last.was_loaded

\* C9: no exception leaves classify_bananas, classify_bananas_from_path or
\* predict: for None, an array of the wrong shape or channel count, an
\* unreadable path, a malformed base64 string or an inference error they
\* return a result with success false and error_message set (predict: an
\* empty list).
C9_NoExceptionEscapes ==
    last.op \in DetectorCalls =>
        /\ ~last.raised
        /\ FailingCall => (~last.result.success /\ last.result.error_message # "None")
        /\ (FailingCall /\ last.op = "predict") => last.legacy = <<>>

\* predict met an inference error on a loaded model
C9_Witness ==
    /\ last.op = "predict"
    /\ last.was_loaded
    /\ last.runtime.raises
    /\ ~last.raised
    /\ last.legacy = <<>>

Lifecycle ==
    IF ~constructed THEN "Uninitialized"
    ELSE IF model_manager.is_loaded THEN "Ready"
    ELSE "LoadFailed"

\* C11: LoadFailed is terminal: once an instance has failed to load its
\* model, no later operation on it (initialize, load_model, classify) makes
\* it Ready.
C11_LoadFailedTerminal ==
    [][Lifecycle = "LoadFailed" => Lifecycle' = "LoadFailed"]_vars

\* What classify_bananas returns for one item of the latest batch when it
\* is the only image processed
IsolatedResult(item) ==
    classify_bananas(last.input.manager, last.thresholds, last.monitor_before,
                     item.upload, item.runtime, item.dt).result

\* An item of a batch whose processing fails: the file cannot be decoded,
\* the model is not loaded, or the runtime raises
ItemFails(item) ==
    \/ item.upload.kind = "truncated"
    \/ ~last.was_loaded
    \/ item.runtime.raises

UsableIndices ==
    {i \in 1..Len(last.input.results.boxes) : ~last.input.results.boxes[i].malformed}

KthUsable(k) ==
    CHOOSE i \in UsableIndices : Cardinality({j \in UsableIndices : j < i}) = k - 1

\* C13: a raw record whose processing raises is skipped and aborts nothing:
\* _process_predictions returns one candidate for every other raw record,
\* in the order of the raw records.
C13_MalformedSkipped ==
    last.op = "_process_predictions" =>
        /\ Len(last.result) = Cardinality(UsableIndices)
        /\ \A k \in 1..Len(last.result) :
              LET raw == last.input.results.boxes[KthUsable(k)]
              IN /\ Matches(last.result[k], raw)
                 /\ last.result[k].polygon # <<>>
                 /\ Len(raw.mask) > 0 => last.result[k].polygon = raw.mask

\* A malformed record between two usable ones of different classes
C13_Witness ==
    /\ last.op = "_process_predictions"
    /\ Len(last.input.results.boxes) = 3
    /\ last.input.results.boxes[2].malformed
    /\ Len(last.result) = 2
    /\ last.result[1].class_id # last.result[2].class_id

\* C15: the bbox of every Detection is non-negative and lies inside the
\* image, whatever box the model returned.
C15_BboxClamped ==
    last.op = "_process_predictions" =>
        \A k \in 1..Len(last.result) :
            LET bbox == last.result[k].bbox
                height == last.input.image.shape[1]
                width == last.input.image.shape[2]
            IN /\ bbox[1] >= 0 /\ bbox[2] >= 0 /\ bbox[3] >= 0 /\ bbox[4] >= 0
               /\ bbox[1] <= width /\ bbox[3] <= width
               /\ bbox[2] <= height /\ bbox[4] <= height

\* Number of detections of each category in the latest aggregated result
CountIn(class_names, name) ==
    Cardinality({i \in 1..Len(class_names) : class_names[i] = name})

Rank(name) == CHOOSE i \in 1..Len(CategoryPriority) : CategoryPriority[i] = name

InProgress == {r \in Requests : requests[r].pc = "classifying"}

\* C16: access to the shared detector is serialized: at no time are two
\* classify_bananas calls in progress on the instance of get_detector().
C16_ClassifySerialized ==
    Cardinality(InProgress) <= 1

\* C17: the configuration of the detector is set at construction and no
\* request changes it afterwards.
C17_ConfigReadOnly ==
    [][constructed => config' = config]_vars

\* s is t with n more samples appended
Extends(s, t, n) ==
    /\ Len(s) = Len(t) + n
    /\ SubSeq(s, 1, Len(t)) = t

\* C18: over calls run one after another the PerformanceMonitor gets one
\* processing-time sample per successful call and nothing from a failed
\* one; the histogram sum and the number of quality-score samples both grow
\* by the number of accepted detections of the call and are equal; no
\* sample is ever removed.
C18_MonitorCounts ==
    /\ DictSum(performance_monitor.class_distribution)
          = Len(performance_monitor.quality_scores)
    /\ Len(performance_monitor.inference_times) <= calls
    /\ last.op \in DetectorCalls =>
          IF Successful
          THEN /\ performance_monitor.inference_times
                     = Append(last.monitor_before.inference_times,
                              last.result.processing_time)
               /\ Extends(performance_monitor.quality_scores,
                          last.monitor_before.quality_scores,
                          Cardinality(AcceptedIndices))
               /\ DictSum(performance_monitor.class_distribution)
                     = DictSum(last.monitor_before.class_distribution)
                       + Cardinality(AcceptedIndices)
               /\ \A k \in DOMAIN last.monitor_before.class_distribution :
                     /\ k \in DOMAIN performance_monitor.class_distribution
                     /\ performance_monitor.class_distribution[k]
                           >= last.monitor_before.class_distribution[k]
          ELSE performance_monitor = last.monitor_before

\* A failed call after a successful one that accepted a detection and
\* rejected another
C18_Witness ==
    /\ calls = 2
    /\ last.op \in DetectorCalls
    /\ ~last.result.success
    /\ Len(performance_monitor.inference_times) = 1
    /\ Len(performance_monitor.quality_scores) = 1
    /\ boxes = 2

\* The latest request was a PredictionView.post whose image passed the
\* checks, whose row was created and whose ML analysis raised
MLStepRaised ==
    /\ last.op = "prediction_post"
    /\ last.input.upload = "ok"
    /\ last.input.db_ok
    /\ last.input.ml.raises

\* C19: when the ML analysis raises during PredictionView.post, the answer
\* is 500 with error 'AI analysis failed' and the ScanRecord of the request
\* is kept with error_message set and retry_count increased by one (to 1).
C19_MLErrorRecorded ==
    MLStepRaised =>
        /\ last.result.status = 500
        /\ last.result.error = "AI analysis failed"
        /\ Len(scan_records) = last.input.records_before + 1
        /\ LET record == scan_records[Len(scan_records)]
           IN /\ record.user = last.input.user
              /\ record.error_message # "None"
              /\ "retry_count" \in DOMAIN record
              /\ record.retry_count = 1

\* The rows a user may not see
ForeignRows(user) == {i \in 1..Len(scan_records) : scan_records[i].user # user}

\* C20: PredictionDetailView.get answers 200 only with a row of the
\* requesting user; for a row of another user the answer is the 404 given
\* for an id that does not exist, which carries no field of the row.
C20_OwnerOnly ==
    last.op = "prediction_detail_get" =>
        LET user == last.input.user
            pk == last.input.pk
            owned == {i \in 1..Len(scan_records) :
                         scan_records[i].id = pk /\ scan_records[i].user = user}
        IN /\ owned = {} => last.result = PredictionNotFound(pk)
           /\ last.result.status = 200 =>
                 /\ owned # {}
                 /\ \A i \in owned : last.result.id = scan_records[i].id
                 /\ \A i \in ForeignRows(user) : last.result.id # scan_records[i].id

\* A user asks for a row of another user that holds an analysis
C20_Witness ==
    /\ last.op = "prediction_detail_get"
    /\ \E i \in ForeignRows(last.input.user) :
          /\ scan_records[i].id = last.input.pk
          /\ scan_records[i].banana_count > 0
    /\ last.result.status = 404

\* The latest request was a PredictionView.post without an image, with an
\* image of more than 10MB, or with a content type that is not JPEG, PNG or
\* WebP
InvalidUpload ==
    /\ last.op = "prediction_post"
    /\ last.input.upload \in {"none", "too_large", "bad_type"}

\* C21: PredictionView.post answers 400 to a request with no image, with an
\* image larger than 10MB or with a content type other than JPEG, PNG or
\* WebP; such a request creates no ScanRecord and makes no call of the ML
\* service.
C21_InvalidUploadRejected ==
    InvalidUpload =>
        /\ last.result.status = 400
        /\ Len(scan_records) = last.input.records_before
        /\ last.runtime.ml_calls = 0

\* An oversized image is refused while the table already holds a row
C21_Witness ==
    /\ InvalidUpload
    /\ last.input.upload = "too_large"
    /\ last.result.error = "Image too large"
    /\ Len(scan_records) >= 1

\* A sub-score in 1/10000: value / reference capped at 1.0
SubScore(value, reference) ==
    IF value >= reference THEN AreaReference ELSE (value * AreaReference) \div reference

Cross(polygon, i) ==
    LET j == IF i = Len(polygon) THEN 1 ELSE i + 1
    IN polygon[i][1] * polygon[j][2] - polygon[j][1] * polygon[i][2]

\* C23: _calculate_polygon_area returns half the absolute value of the sum
\* of the cross products of consecutive vertices, the polygon being closed
\* from its last vertex to its first; the value is never negative, it is 0
\* for fewer than 3 points and 1.0 for the unit square.
C23_ShoelaceArea ==
    last.op = "_calculate_polygon_area" =>
        LET polygon == last.input
            sum == SumOver(DOMAIN polygon, [i \in DOMAIN polygon |-> Cross(polygon, i)])
        IN /\ last.result >= 0
           /\ Len(polygon) < 3 => last.result = 0
           /\ Len(polygon) >= 3 => 2 * last.result = Abs(sum)
           /\ polygon = UnitSquare => last.result = 1

\* The unit square given in the opposite orientation: the shoelace sum is
\* negative, the area is 1.0
C23_Witness ==
    /\ last.op = "_calculate_polygon_area"
    /\ last.input = << <<0, 1>>, <<1, 1>>, <<1, 0>>, <<0, 0>> >>
    /\ ShoelaceSum(last.input, 1) < 0
    /\ last.result = 1

\* The calls of the threads, in some order
RequestOrder == <<1, 2>>

\* The PerformanceMonitor after the calls of the threads have been logged
\* one after another
RECURSIVE OneAfterAnother(_, _)
OneAfterAnother(monitor, rs) ==
    IF rs = <<>> THEN monitor
    ELSE OneAfterAnother(
            IF requests[Head(rs)].result.success
            THEN log_inference(monitor, requests[Head(rs)].result.processing_time,
                               requests[Head(rs)].detections)
            ELSE monitor,
            Tail(rs))

AllReturned == \A r \in Requests : requests[r].pc = "done"

\* C24: when concurrent classify_bananas calls on the shared detector have
\* all returned, the PerformanceMonitor holds as many processing-time
\* samples and quality-score samples, and the same histogram counts, as
\* after the same calls run one after another: no update is lost.
C24_NoLostUpdate ==
    AllReturned =>
        LET serial == OneAfterAnother(NoCall.monitor_before, RequestOrder)
        IN /\ Len(performance_monitor.inference_times) = Len(serial.inference_times)
           /\ Len(performance_monitor.quality_scores) = Len(serial.quality_scores)
           /\ performance_monitor.class_distribution = serial.class_distribution

\* The threads that have their processing_time
Timed == {r \in Requests : requests[r].pc \in {"formatted", "read", "write", "score", "done"}}

\* C27: the processing_time of a result is the time from the start of the
\* classify_bananas call that produced it to the moment it was computed,
\* also when the calls of several threads interleave.
C27_OwnStartTime ==
    \A r \in Timed :
        requests[r].result.processing_time = requests[r].ended - requests[r].started

\* C25: while the counter of a client IP and path has not expired, the
\* RateLimitMiddleware lets through at most the limit of the path (10 under
\* /api/predict/, 100 under the rest of /api/), also when requests of the
\* IP are served concurrently; any further request gets 429.
C25_RateLimitBound ==
    /\ \A key \in DOMAIN admitted : admitted[key] <= RateLimit(key[3])
    /\ last.op = "process_request" =>
          (last.result.returns = "JsonResponse"
              <=> (IsApiPath(last.input.path)
                   /\ last.input.current_count >= RateLimit(last.input.path)))

\* The raw boxes of the latest call that quality validation turns down for
\* low confidence
LowConfidenceIndices ==
    {i \in 1..Len(RawBoxes) :
        /\ ~RawBoxes[i].malformed
        /\ LET issues == ValidationIssues(last.thresholds, ExtractDetection(RawBoxes[i]))
           IN \E k \in DOMAIN issues : issues[k] = "Low confidence"}

\* C26: when MLAnalysisView.post carries confidence_threshold t, the
\* quality validation of its classify_bananas call has t as minimum
\* confidence: every detection of the result has a confidence of at least
\* t, and no box with a confidence of at least t is turned down for low
\* confidence.
C26_RequestThresholdValidates ==
    (last.op = "ml_analysis_post" /\ Successful) =>
        /\ \A j \in 1..Len(last.result.detections) :
              last.result.detections[j].confidence >= last.conf_arg
        /\ \A i \in LowConfidenceIndices : RawBoxes[i].conf < last.conf_arg

\* The latest request was a PredictionView.post that created its row
RecordCreated ==
    /\ last.op = "prediction_post"
    /\ Len(scan_records) = last.input.records_before + 1

\* C28: the ScanRecord a PredictionView.post request has created is in a
\* consistent final state when the request ends: the answer is 200 and the
\* row holds the analysis results with error_message null, or the answer is
\* an error and the row has an error_message; whichever step fails after
\* the creation of the row.
C28_RecordFinalState ==
    RecordCreated =>
        LET record == scan_records[Len(scan_records)]
        IN IF last.result.status = 200
           THEN /\ record.error_message = "None"
                /\ record.banana_count = Len(last.input.ml.ripeness)
                /\ record.ripeness_results = last.input.ml.ripeness
           ELSE record.error_message # "None"

\* C29: every ScanRecord written by _save_analysis_results or recomputed by
\* update_ripeness_counts has banana_count = not_mature_count + mature_count
\* + ripe_count + over_ripe_count, whatever the detections are.
C29_CountsSumToBananaCount ==
    \A i \in 1..Len(scan_records) :
        scan_records[i].banana_count
            = scan_records[i].not_mature_count + scan_records[i].mature_count
              + scan_records[i].ripe_count + scan_records[i].over_ripe_count


\* C30: after any sequence of load_model calls on one manager, is_loaded is
\* true only if the model held is the one whose load and validation
\* succeeded: a later load_model that fails never leaves is_loaded true with
\* a model that did not pass validation.
C30_LoadedModelValidated ==
    model_manager.is_loaded => model_manager.model = "valid"

====
